---- MODULE Spec2Model ----
(***************************************************************************)
(* Google Review Booster backend (src/server.js): the JSON-file client     *)
(* store, its seed loader and the review-list handlers, as a state machine *)
(* whose steps are the file-system operations the handlers await.          *)
(*                                                                         *)
(* Strings whose characters matter (client identifiers, file names, paths) *)
(* and detail values that are validated by their characters are sequences  *)
(* of one-character strings; review texts and client names are TLA+        *)
(* strings.  A JSON object is a function from its keys to values.          *)
(***************************************************************************)
EXTENDS Integers, Sequences, FiniteSets, TLC

VARIABLES
    fs,       \* the files: what each path holds
    req,      \* per connection: the request being handled and its handler's locals
    res,      \* per connection: the response of the current request
    served,   \* number of requests issued so far
    lastMut,  \* history: per path, the connection whose current request last wrote or removed it
    saw       \* history: per connection, lastMut of its client file when the request last looked at it

vars == <<fs, req, res, served, lastMut, saw>>

(***************************************************************************)
(* Bounds of the model.                                                    *)
(***************************************************************************)
\* number of HTTP requests a behaviour issues
MaxRequests == 2

\* client connections; each carries one request at a time, so two handlers can interleave
Conns == {"c1", "c2"}
NoConn == "none"

(***************************************************************************)
(* Character strings and Node's path module (POSIX flavour).               *)
(***************************************************************************)
Letters == {"a","b","c","d","e","f","g","h","i","j","k","l","m","n","o","p","q",
            "r","s","t","u","v","w","x","y","z",
            "A","B","C","D","E","F","G","H","I","J","K","L","M","N","O","P","Q",
            "R","S","T","U","V","W","X","Y","Z"}
Digits == {"0","1","2","3","4","5","6","7","8","9"}
AlnumChars == Letters \cup Digits
\* the regular-expression class [\w\.-]
WordDotDashChars == AlnumChars \cup {"_", ".", "-"}

DotJson == <<".", "j", "s", "o", "n">>

\* String.prototype.startsWith
startsWith(s, prefix) ==
    /\ Len(prefix) <= Len(s)
    /\ SubSeq(s, 1, Len(prefix)) = prefix

\* String.prototype.endsWith
endsWith(s, suffix) ==
    /\ Len(suffix) <= Len(s)
    /\ SubSeq(s, Len(s) - Len(suffix) + 1, Len(s)) = suffix

\* String.prototype.indexOf for a substring, 1-based from position i; 0 stands for -1
RECURSIVE indexOfSub(_, _, _)
indexOfSub(s, sub, i) ==
    IF i + Len(sub) - 1 > Len(s) THEN 0
    ELSE IF SubSeq(s, i, i + Len(sub) - 1) = sub THEN i
    ELSE indexOfSub(s, sub, i + 1)

\* String.prototype.replace with a string pattern: the first occurrence is replaced
replace(s, pattern, by) ==
    LET i == indexOfSub(s, pattern, 1)
    IN  IF i = 0 THEN s
        ELSE SubSeq(s, 1, i - 1) \o by \o SubSeq(s, i + Len(pattern), Len(s))

\* the first position from i on of s that holds a character of set; Len(s) + 1 when none does
RECURSIVE indexOfAny(_, _, _)
indexOfAny(s, set, i) ==
    IF i > Len(s) \/ s[i] \in set THEN i ELSE indexOfAny(s, set, i + 1)

\* String.prototype.split with a one-character separator
RECURSIVE split(_, _)
split(s, sep) ==
    LET i == indexOfAny(s, {sep}, 1)
    IN  IF i > Len(s) THEN <<s>>
        ELSE <<SubSeq(s, 1, i - 1)>> \o split(SubSeq(s, i + 1, Len(s)), sep)

\* path.normalize's segment walk: drops "" and ".", resolves ".."
RECURSIVE NormalizeSegments(_, _, _)
NormalizeSegments(segs, out, isAbsolute) ==
    IF segs = <<>> THEN out
    ELSE LET h == Head(segs)
             t == Tail(segs)
         IN  IF h = <<>> \/ h = <<".">> THEN NormalizeSegments(t, out, isAbsolute)
             ELSE IF h = <<".", ".">>
                  THEN IF out # <<>> /\ out[Len(out)] # <<".", ".">>
                       THEN NormalizeSegments(t, SubSeq(out, 1, Len(out) - 1), isAbsolute)
                       ELSE IF isAbsolute
                            THEN NormalizeSegments(t, out, isAbsolute)
                            ELSE NormalizeSegments(t, Append(out, h), isAbsolute)
                  ELSE NormalizeSegments(t, Append(out, h), isAbsolute)

RECURSIVE JoinSlash(_)
JoinSlash(segs) ==
    IF segs = <<>> THEN <<>>
    ELSE IF Len(segs) = 1 THEN segs[1]
    ELSE segs[1] \o <<"/">> \o JoinSlash(Tail(segs))

\* path.normalize
normalize(p) ==
    IF p = <<>> THEN <<".">>
    ELSE LET isAbsolute == p[1] = "/"
             trailing == p[Len(p)] = "/"
             walked == JoinSlash(NormalizeSegments(split(p, "/"), <<>>, isAbsolute))
             body == IF walked = <<>> /\ ~isAbsolute THEN <<".">> ELSE walked
             tail == IF trailing /\ (walked # <<>> \/ ~isAbsolute) THEN <<"/">> ELSE <<>>
         IN  (IF isAbsolute THEN <<"/">> ELSE <<>>) \o body \o tail

\* path.join(a, b)
pathJoin(a, b) ==
    IF a = <<>> THEN normalize(b)
    ELSE IF b = <<>> THEN normalize(a)
    ELSE normalize(a \o <<"/">> \o b)

\* the directory of a normalized absolute path (all but its last segment)
RECURSIVE LastSlash(_, _)
LastSlash(p, i) == IF i = 0 THEN 0 ELSE IF p[i] = "/" THEN i ELSE LastSlash(p, i - 1)
dirname(p) == LET k == LastSlash(p, Len(p)) IN IF k <= 1 THEN <<"/">> ELSE SubSeq(p, 1, k - 1)
\* the last segment of a path
basename(p) == SubSeq(p, LastSlash(p, Len(p)) + 1, Len(p))

(***************************************************************************)
(* Paths and constants of the server.                                      *)
(***************************************************************************)
\* __dirname: the directory server.js is installed in
DirName == <<"/", "s", "r", "v">>
DATA_DIR == pathJoin(DirName, <<"d", "a", "t", "a">>)
SampleReviewsName == <<"s","a","m","p","l","e","-","r","e","v","i","e","w","s","-","2","0","0">> \o DotJson
SAMPLE_REVIEWS_FILE == pathJoin(DATA_DIR, SampleReviewsName)

\* a path lies in the data directory when that directory is its parent or an ancestor
RECURSIVE InsideDir(_, _)
InsideDir(p, dir) ==
    LET d == dirname(p)
    IN  IF d = dir THEN TRUE
        ELSE IF d = <<"/">> \/ d = p THEN FALSE
        ELSE InsideDir(d, dir)
InsideDataDir(p) == InsideDir(p, DATA_DIR)

(***************************************************************************)
(* JSON values.                                                            *)
(***************************************************************************)
EmptyObj == [k \in {} |-> ""]
Has(o, k) == k \in DOMAIN o
\* object spread {...a, ...b}
Spread(a, b) == [k \in (DOMAIN a) \cup (DOMAIN b) |-> IF k \in DOMAIN b THEN b[k] ELSE a[k]]
\* rest destructuring: the object without the named keys
Rest(o, keys) == [k \in (DOMAIN o) \ keys |-> o[k]]

\* the values a "reviews" member takes: an array of strings, or a truthy
\* value that is neither an array nor iterable (a nested object, a number)
Arr(items) == [t |-> "array", items |-> items]
NonArray == [t |-> "object", items |-> <<>>]
IsArray(v) == v.t = "array"

\* the length of JSON.stringify(o, null, 2) plus the final line feed, for
\* the documents of the model: string members, and a reviews member that is
\* an array of strings or an empty nested object
RECURSIVE itemsLength(_)
itemsLength(items) ==
    IF items = <<>> THEN 0 ELSE (4 + Len(Head(items)) + 2) + itemsLength(Tail(items))
RECURSIVE membersLength(_, _)
membersLength(o, keys) ==
    IF keys = {} THEN 0
    ELSE LET k == CHOOSE x \in keys : TRUE
             items == o[k].items
             array == IF items = <<>> THEN 2
                      ELSE 2 + itemsLength(items) + 2 * (Len(items) - 1) + 4
             value == IF k # "reviews" THEN Len(o[k]) + 2
                      ELSE IF IsArray(o[k]) THEN array ELSE 2
         IN  (2 + (Len(k) + 2) + 2 + value) + membersLength(o, keys \ {k})
stringifyLength(o) ==
    IF DOMAIN o = {} THEN 3
    ELSE 2 + membersLength(o, DOMAIN o) + 2 * (Cardinality(DOMAIN o) - 1) + 2 + 1

\* the order of the members of the object o that a handler builds from an
\* object whose members are in the order before: a member that was there
\* keeps its place ({...data, ...req.body}, data.reviews = ...), the new ones
\* follow in the order of the spread: the details in the order of the body
\* (the name, the link, the colours, the logo), then clientId, then reviews
keysOf(o, before) ==
    LET Kept(k) == k \in DOMAIN o
        New(k) == k \in DOMAIN o /\ \A i \in 1..Len(before) : before[i] # k
    IN  SelectSeq(before, Kept)
        \o SelectSeq(<<"clientName", "googleReviewLink", "primaryColor", "secondaryColor",
                       "logoUrl", "clientId", "reviews">>, New)
\* the positions of the blanks in a client name or a review of the model
blanksOf(s) ==
    CASE s \in {"Acme Corp", "Acme Ltd", "Very professional."} -> {5}
      [] s = "Xyz Shop" -> {4}
      [] s = "Great service!!!" -> {6}
      [] s = "Superb, will return!" -> {8, 13}
      [] s = "Excellent service!" -> {10}
      [] s = "Security warning: Invalid file path." -> {9, 18, 26, 31}
      [] OTHER -> {}
\* the positions of the white space in the lines JSON.stringify(o, null, 2)
\* makes of the items of a non-empty array and of its closing bracket, when
\* at characters precede them: four blanks, the quoted item, "," and a line
\* feed; behind the last item a line feed, two blanks and "]"
RECURSIVE itemsBlanks(_, _)
itemsBlanks(items, at) ==
    LET item == Head(items)
        line == (at + 1)..(at + 4) \cup {at + 5 + i : i \in blanksOf(item)}
        quote == at + Len(item) + 6
    IN  IF Len(items) = 1 THEN line \cup {quote + 1, quote + 2, quote + 3}
        ELSE line \cup {quote + 2} \cup itemsBlanks(Tail(items), quote + 2)
\* the same for the members of o among keys, in that order: two blanks, the
\* quoted key, ":", a blank, the value, "," and a line feed; behind the last
\* member a line feed, "}" and the final line feed
RECURSIVE membersBlanks(_, _, _)
membersBlanks(o, keys, at) ==
    IF keys = <<>> THEN {}
    ELSE IF Head(keys) \notin DOMAIN o THEN membersBlanks(o, Tail(keys), at)
    ELSE LET k == Head(keys)
             value == at + Len(k) + 6
             next == at + membersLength(o, {k})
             inside == IF k = "reviews"
                       THEN IF IsArray(o[k]) /\ o[k].items # <<>>
                            THEN {value + 2} \cup itemsBlanks(o[k].items, value + 2)
                            ELSE {}
                       ELSE IF k = "clientName"
                            THEN {value + 1 + i : i \in blanksOf(o[k])}
                            ELSE {value + 1 + i : i \in {j \in 1..Len(o[k]) : o[k][j] = " "}}
             last == \A j \in 1..Len(Tail(keys)) : Tail(keys)[j] \notin DOMAIN o
         IN  {at + 1, at + 2, value} \cup inside
             \cup (IF last THEN {next + 1, next + 3}
                           ELSE {next + 2} \cup membersBlanks(o, Tail(keys), next + 2))

\* what a path holds: nothing, or a text of len characters.  head is the
\* length of the JSON value the text begins with (0 when it begins with
\* none), obj that value when it is an object, keys the order of its
\* members, and blanks the positions behind the value that hold white
\* space; the text is JSON when its value is all it holds but white space,
\* that is when head > 0 and blanks is all of head + 1 .. len
Absent == [kind |-> "absent", obj |-> EmptyObj, keys |-> <<>>, len |-> 0, head |-> 0, blanks |-> {}]
\* a text that begins with no JSON value: an empty file, a cut-off document
NotJson(len) ==
    [kind |-> "malformed", obj |-> EmptyObj, keys |-> <<>>, len |-> len, head |-> 0, blanks |-> {}]
Malformed == NotJson(8)
\* the text null and a line feed
JsonNull ==
    [kind |-> "null", obj |-> EmptyObj, keys |-> <<>>, len |-> 5, head |-> 4, blanks |-> {5}]
\* the text fs.writeJson makes of an object: JSON.stringify and a line
\* feed; the members are in the order POST /api/client builds them in
JsonObj(o) ==
    LET len == stringifyLength(o)
    IN  [kind |-> "obj", obj |-> o, keys |-> keysOf(o, <<>>),
         len |-> len, head |-> len - 1, blanks |-> {len}]
\* the positions of the text f that hold white space: those of the lines of
\* the object it begins with, and those behind the value
whiteSpace(f) ==
    f.blanks \cup
    (IF f.head = 0 \/ f.kind = "null" \/ DOMAIN f.obj = {} THEN {}
     ELSE {2} \cup membersBlanks(f.obj, f.keys, 2))

\* mutant: the existence test always answers no
pathExists_Never(files, p) == FALSE

\* fs.pathExists
pathExists(files, p) == files[p].kind # "absent"

\* fs.readJson is fs.readFile and JSON.parse.  readFile opens the file, asks
\* fstat for its size, reads until it has size characters or a read yields
\* nothing (to the end of the file when size is 0) and closes; each of these
\* calls is a turn of the event loop of its own, and the reads take what the
\* file holds when they run.
\* the first n characters of the text f.  They are JSON when they hold the
\* whole value the text begins with and nothing behind it but white space:
\* the line feed, and in a partly overwritten file the white space that the
\* rest of the longer text begins with
firstChars(f, n) ==
    IF f.len <= n THEN f
    ELSE IF f.head = 0 \/ n < f.head THEN NotJson(n)
    ELSE LET blanks == f.blanks \cap ((f.head + 1)..n)
         IN  [f EXCEPT !.kind = IF blanks # (f.head + 1)..n THEN "malformed"
                                ELSE IF f.kind = "null" THEN "null" ELSE "obj",
                       !.len = n, !.blanks = blanks]
\* one read of readFile through a descriptor that has read buf so far, when
\* fstat reported size and the file holds f now: it takes the characters
\* behind those read, up to position size when size is not 0.  What is read
\* behind a whole JSON value keeps it JSON when it is white space only
readChunk(buf, size, f) ==
    LET n == IF size = 0 \/ f.len < size THEN f.len ELSE size
        added == whiteSpace(f) \cap ((buf.len + 1)..n)
    IN  IF n <= buf.len THEN buf
        ELSE IF buf.len = 0 THEN firstChars(f, n)
        ELSE IF buf.head = 0 THEN NotJson(n)
        ELSE [buf EXCEPT !.kind = IF added = (buf.len + 1)..n THEN buf.kind ELSE "malformed",
                         !.len = n, !.blanks = buf.blanks \cup added]
\* JSON.parse raises on a text that is not JSON
readJsonThrows(text) == text.kind \in {"absent", "malformed"}
\* fs.readJson's value is null for the JSON text null
readJsonIsNull(text) == text.kind = "null"
readJson(text) == text.obj

\* fs.writeJson is fs.writeFile of the serialized object: the file is opened
\* with flag "w", which creates or empties it; the text is written through
\* the descriptor from position 0; the descriptor is closed.  The calls run
\* in separate turns of the event loop, so other handlers look at the file
\* and write into it in between.
\* the open: the file exists and is empty
truncate(files, p) == [files EXCEPT ![p] = NotJson(0)]
\* the write: the text replaces the first characters of what the file holds
\* by then.  What another descriptor wrote since the open stays behind the
\* text when it is longer: the file is this document when only white space
\* stays, and is not JSON otherwise
overlay(old, o, keys) ==
    LET len == stringifyLength(o)
        blanks == {len} \cup (whiteSpace(old) \cap ((len + 1)..old.len))
    IN  IF len >= old.len THEN [JsonObj(o) EXCEPT !.keys = keys]
        ELSE [kind |-> IF blanks = len..old.len THEN "obj" ELSE "malformed",
              obj |-> o, keys |-> keys, len |-> old.len, head |-> len - 1, blanks |-> blanks]
writeJson(files, p, o, keys) == [files EXCEPT ![p] = overlay(files[p], o, keys)]

\* fs.remove
remove(files, p) == [files EXCEPT ![p] = Absent]

(***************************************************************************)
(* Joi validation schemas.                                                 *)
(***************************************************************************)
\* the regular-expression class [0-9a-fA-F]
HexDigits == Digits \cup {"a","b","c","d","e","f","A","B","C","D","E","F"}
\* Joi.string().uri(): scheme ":" hier-part [ "?" query ] [ "#" fragment ].
\* The hier-part is "//" authority and a path, or a path that is absolute,
\* rootless or begins with "///"; it is never empty.  The authority is
\* [ userinfo "@" ] host [ ":" port ] with a host that is a registered name
\* of 1 to 255 characters or an IP literal in brackets (an IPv4 address is a
\* registered name too).  After http: and https: Joi insists on "//" not
\* followed by a third "/".  The scheme class is [a-zA-Z\d+-\.], in which
\* +-\. is the range from "+" to "." and so holds ","; the classes of a
\* registered name and of a path character list "%" and the hex digits as
\* members, so a "%" needs no hex digits after it.  Detail values that are
\* validated by their characters are sequences of one-character strings.
IsUri(v) ==
    LET SchemeChars == AlnumChars \cup {"+", ",", "-", "."}
        RegNameChars == AlnumChars \cup {"_", "-", ".", "~", "%", "!", "$", "&", "'", "(", ")",
                                         "*", "+", ",", ";", "="}
        PChars == RegNameChars \cup {":", "@"}
        all(s, set) == \A i \in 1..Len(s) : s[i] \in set
        from(s, i) == SubSeq(s, i, Len(s))
        upTo(s, i) == SubSeq(s, 1, i - 1)
        digitValue(d) == (CHOOSE n \in 1..10 : <<"0","1","2","3","4","5","6","7","8","9">>[n] = d) - 1
        \* dec-octet: one to three digits, not above 255
        decOctet(s) ==
            /\ Len(s) \in 1..3
            /\ all(s, Digits)
            /\ Len(s) = 3 => 100 * digitValue(s[1]) + 10 * digitValue(s[2]) + digitValue(s[3]) <= 255
        ipv4(s) ==
            LET octets == split(s, ".")
            IN  Len(octets) = 4 /\ \A i \in 1..4 : decOctet(octets[i])
        h16(s) == Len(s) \in 1..4 /\ all(s, HexDigits)
        \* the pieces between the ":" of an IPv6 address: h16, and at the end
        \* an IPv4 address where allowed, which counts for two
        pieces(s) == IF s = <<>> THEN <<>> ELSE split(s, ":")
        wellFormed(gs, v4) ==
            \A i \in 1..Len(gs) : h16(gs[i]) \/ (v4 /\ i = Len(gs) /\ ipv4(gs[i]))
        units(gs) == IF gs # <<>> /\ ipv4(gs[Len(gs)]) THEN Len(gs) + 1 ELSE Len(gs)
        ipv6(s) ==
            LET dbl == indexOfSub(s, <<":", ":">>, 1)
                left == pieces(upTo(s, dbl))
                right == pieces(from(s, dbl + 2))
            IN  IF dbl = 0
                THEN wellFormed(pieces(s), TRUE) /\ units(pieces(s)) = 8
                ELSE /\ wellFormed(left, FALSE)
                     /\ wellFormed(right, TRUE)
                     /\ Len(left) + units(right) <= 7
        ipvFuture(s) ==
            LET dot == indexOfAny(s, {"."}, 1)
            IN  /\ s # <<>>
                /\ s[1] = "v"
                /\ dot >= 3
                /\ dot < Len(s)
                /\ all(SubSeq(s, 2, dot - 1), HexDigits)
                /\ all(from(s, dot + 1), (RegNameChars \ {"%"}) \cup {":"})
        port(s) == s = <<>> \/ (s[1] = ":" /\ all(Tail(s), Digits))
        hostPort(s) ==
            IF s # <<>> /\ s[1] = "["
            THEN LET close == indexOfAny(s, {"]"}, 1)
                     literal == SubSeq(s, 2, close - 1)
                 IN  /\ close <= Len(s)
                     /\ ipv6(literal) \/ ipvFuture(literal)
                     /\ port(from(s, close + 1))
            ELSE LET colon == indexOfAny(s, {":"}, 1)
                     regName == upTo(s, colon)
                 IN  /\ Len(regName) \in 1..255
                     /\ all(regName, RegNameChars)
                     /\ port(from(s, colon))
        authority(s) ==
            LET at == indexOfAny(s, {"@"}, 1)
            IN  IF at > Len(s) THEN hostPort(s)
                ELSE all(upTo(s, at), RegNameChars \cup {":"}) /\ hostPort(from(s, at + 1))
        path(s) == all(s, PChars \cup {"/"})
        hierPart(s) ==
            \/ /\ startsWith(s, <<"/", "/">>)
               /\ LET slash == indexOfAny(s, {"/"}, 3)
                  IN  authority(SubSeq(s, 3, slash - 1)) /\ path(from(s, slash))
            \/ /\ s # <<>>
               /\ s[1] = "/"
               /\ Len(s) = 1 \/ s[2] # "/"
               /\ path(s)
            \/ /\ s # <<>>
               /\ s[1] # "/"
               /\ path(s)
            \/ /\ startsWith(s, <<"/", "/", "/">>)
               /\ path(s)
        colon == indexOfAny(v, {":"}, 1)
        rest == from(v, colon + 1)
        mark == indexOfAny(rest, {"?", "#"}, 1)
        hash == indexOfAny(rest, {"#"}, 1)
    IN  /\ colon >= 2
        /\ colon <= Len(v)
        /\ v[1] \in Letters
        /\ all(SubSeq(v, 2, colon - 1), SchemeChars)
        /\ upTo(v, colon) \in {<<"h", "t", "t", "p">>, <<"h", "t", "t", "p", "s">>}
              => /\ startsWith(rest, <<"/", "/">>)
                 /\ ~startsWith(rest, <<"/", "/", "/">>)
        /\ hierPart(upTo(rest, mark))
        /\ all(SubSeq(rest, mark + 1, hash - 1), PChars \cup {"/", "?"})
        /\ all(from(rest, hash + 1), PChars \cup {"/", "?"})

\* Joi.string().regex(/^#[0-9a-fA-F]{6}$/)
IsHexColor(v) ==
    /\ Len(v) = 7
    /\ v[1] = "#"
    /\ \A i \in 2..7 : v[i] \in HexDigits

\* Joi.string().alphanum().min(3).max(50)
IsClientIdString(s) ==
    /\ Len(s) >= 3
    /\ Len(s) <= 50
    /\ \A i \in 1..Len(s) : s[i] \in AlnumChars

\* Joi.string().pattern(/^[\w\.-]+\.json$/).allow("")
IsSourceReviewFile(s) ==
    \/ s = <<>>
    \/ /\ Len(s) > Len(DotJson)
       /\ endsWith(s, DotJson)
       /\ \A i \in 1..Len(s) : s[i] \in WordDotDashChars

DetailKeysValid(b) ==
    /\ {"clientName", "googleReviewLink", "primaryColor", "secondaryColor"} \subseteq DOMAIN b
    /\ Len(b.clientName) >= 3 /\ Len(b.clientName) <= 100
    /\ IsUri(b.googleReviewLink)
    /\ Has(b, "logoUrl") => (b.logoUrl = <<>> \/ IsUri(b.logoUrl))
    /\ IsHexColor(b.primaryColor)
    /\ IsHexColor(b.secondaryColor)

clientCreateSchema(b) ==
    /\ DOMAIN b \subseteq {"clientId", "clientName", "googleReviewLink", "logoUrl",
                           "primaryColor", "secondaryColor", "sourceReviewFile"}
    /\ Has(b, "clientId")
    /\ IsClientIdString(b.clientId)
    /\ DetailKeysValid(b)
    /\ Has(b, "sourceReviewFile") => IsSourceReviewFile(b.sourceReviewFile)

\* mutant: the update schema lets unknown keys through
clientUpdateSchema_AllowsUnknown(b) == DetailKeysValid(b)

clientUpdateSchema(b) ==
    /\ DOMAIN b \subseteq {"clientName", "googleReviewLink", "logoUrl",
                           "primaryColor", "secondaryColor"}
    /\ DetailKeysValid(b)

\* Joi.string().min(5).max(500).required()
addReviewSchema(b) ==
    /\ DOMAIN b \subseteq {"review"}
    /\ Has(b, "review")
    /\ Len(b.review) >= 5
    /\ Len(b.review) <= 500

\* the routes that run validateBody, and the schema each passes
validateBody(op, b) ==
    CASE op = "createClient" -> clientCreateSchema(b)
      [] op = "updateClient" -> clientUpdateSchema(b)
      [] op = "addReview" -> addReviewSchema(b)
      [] OTHER -> TRUE

(***************************************************************************)
(* Inputs: client identifiers, request bodies, initial files.              *)
(***************************************************************************)
IdAbc == <<"a", "b", "c">>
IdXyz == <<"x", "y", "z">>
\* the default seed file's name without its extension, used as a client identifier
IdSample == SubSeq(SampleReviewsName, 1, Len(SampleReviewsName) - Len(DotJson))
\* "..%2Fevil" in the URL, decoded by the router
IdEvil == <<".", ".", "/", "e", "v", "i", "l">>
RouteIds == {IdAbc, IdXyz, IdSample, IdEvil}
\* ".%2Fabc" in the URL: another spelling that resolves to the file of abc
IdDotAbc == <<".", "/">> \o IdAbc

XyzJson == IdXyz \o DotJson
TraversalName == <<".", ".", "/">> \o XyzJson

\* a copy of a client file kept under a name that has ".json" inside it too,
\* the file GET /api/clients looks for in its place, and a file that is not JSON
OldCopyName == IdAbc \o DotJson \o <<".", "o", "l", "d">> \o DotJson
OldCopyLookedUpName == replace(OldCopyName, DotJson, <<>>) \o DotJson
NotesName == <<"n", "o", "t", "e", "s">>

\* the names of the data directory's entries, in the order fs.readdir yields them
DirEntries == <<IdAbc \o DotJson, OldCopyName, OldCopyLookedUpName, NotesName,
                SampleReviewsName, XyzJson>>

\* every name the handlers join to DATA_DIR: the client identifiers of the
\* requests with ".json" added, the seed file names, the directory's entries
\* and what GET /api/clients makes of them
JoinedNames ==
    {i \o DotJson : i \in RouteIds \cup {IdDotAbc, <<>>}}
    \cup {SampleReviewsName, XyzJson, TraversalName}
    \cup {DirEntries[i] : i \in 1..Len(DirEntries)}
    \cup {replace(DirEntries[i], DotJson, <<>>) \o DotJson : i \in 1..Len(DirEntries)}

\* path.join(DATA_DIR, name), computed once for each of these names
DataDirJoin == [name \in JoinedNames |-> pathJoin(DATA_DIR, name)]

getClientDataPath(clientId) == DataDirJoin[clientId \o DotJson]

Paths ==
    {getClientDataPath(i) : i \in RouteIds}
    \cup {pathJoin(DATA_DIR, DirEntries[i]) : i \in 1..Len(DirEntries)}

\* detail values.  Links: two review links, one without a scheme, one with
\* nothing between the scheme and the query, and a logo address whose host
\* is an IP literal.  Colours: three hex colours and one with a letter that
\* is no hex digit
Links ==
    [acme |-> <<"h", "t", "t", "p", "s", ":", "/", "/", "g", ".", "p", "a", "g", "e", "/", "r", "/", "a", "c", "m", "e">>,
     example |-> <<"h", "t", "t", "p", "s", ":", "/", "/", "e", "x", "a", "m", "p", "l", "e", ".", "c", "o", "m", "/", "x">>,
     noScheme |-> <<"g", ".", "p", "a", "g", "e", "/", "r", "/", "a", "c", "m", "e">>,
     noHier |-> <<"f", "o", "o", ":", "?", "x">>,
     loopback |-> <<"h", "t", "t", "p", ":", "/", "/", "[", ":", ":", "1", "]", "/">>]
Colors ==
    [c112233 |-> <<"#", "1", "1", "2", "2", "3", "3">>,
     c445566 |-> <<"#", "4", "4", "5", "5", "6", "6">>,
     mixedCase |-> <<"#", "a", "A", "b", "B", "c", "C">>,
     notHex |-> <<"#", "1", "2", "3", "4", "5", "g">>]

Details(name) ==
    [clientName |-> name, googleReviewLink |-> Links.acme,
     primaryColor |-> Colors.c112233, secondaryColor |-> Colors.c445566]
\* the details an update carries: another name, link and primary colour, and a logo
NewDetails(name) ==
    [clientName |-> name, googleReviewLink |-> Links.example, logoUrl |-> Links.loopback,
     primaryColor |-> Colors.mixedCase, secondaryColor |-> Colors.c445566]

CreateBodies ==
    {Spread(Details("Acme Corp"), [clientId |-> i]) : i \in {IdAbc, IdXyz}}
    \cup {Spread(Details("Acme Corp"), [clientId |-> IdAbc, sourceReviewFile |-> XyzJson])}
    \cup {Spread(Details("Acme Ltd"), [clientId |-> IdAbc])}
\* the bodies that name a seed file in the other ways: "", and a name that leaves the directory
SeedCreateBodies ==
    {Spread(Details("Acme Corp"), [clientId |-> IdAbc, sourceReviewFile |-> f]) :
        f \in {<<>>, TraversalName}}
UpdateBodies == {NewDetails("Acme Ltd")}
BadUpdateBodies ==
    {Details("AL"), Spread(Details("Acme Ltd"), [reviews |-> Arr(<<>>)]),
     Spread(Details("Acme Ltd"), [googleReviewLink |-> Links.noScheme]),
     Spread(Details("Acme Ltd"), [googleReviewLink |-> Links.noHier]),
     Spread(Details("Acme Ltd"), [primaryColor |-> Colors.notHex])}
AddReviewBodies == {[review |-> "Great service!!!"], [review |-> "Superb, will return!"]}
\* a review to delete that is twice in the list of abc, one that is not in
\* it, and the bodies the handler rejects
DeleteReviewBodies == {[review |-> "Good"], [review |-> "Great service!!!"], [review |-> ""], EmptyObj}


\* the <<clientId parameter, body>> pairs a request of each route is drawn from
Inputs(op) ==
    CASE op = "createClient" -> {<<>>} \X CreateBodies
      [] op = "updateClient" -> {IdAbc} \X (UpdateBodies \cup BadUpdateBodies)
      [] op = "addReview" -> {IdAbc} \X AddReviewBodies
      [] op = "deleteReview" -> {IdAbc} \X DeleteReviewBodies
      [] op \in {"listClients", "listDataFiles"} -> {<<>>} \X {EmptyObj}
      [] op = "randomReview" -> {IdAbc, IdXyz} \X {EmptyObj}
      [] OTHER -> {IdAbc} \X {EmptyObj}

\* the pairs of the requests that create clients from every kind of seed file
SeedInputs(op) ==
    IF op = "createClient" THEN {<<>>} \X (CreateBodies \cup SeedCreateBodies) ELSE Inputs(op)

\* the pairs of the requests whose identifier is not a client's: one that
\* leaves the data directory, the default seed file's name, and another
\* spelling of abc
PathInputs(op) ==
    CASE op = "createClient" -> {<<>>} \X {Spread(Details("Acme Corp"), [clientId |-> IdEvil])}
      [] op = "getClientDetail" -> {IdEvil} \X {EmptyObj}
      [] op = "updateClient" -> {IdSample, IdDotAbc, IdEvil} \X UpdateBodies
      [] op = "deleteClient" -> {IdSample, IdEvil} \X {EmptyObj}
      [] op = "addReview" -> {IdSample} \X AddReviewBodies
      [] OTHER -> {}

\* the pairs of the requests on two identifiers: create, update, delete,
\* addReview and deleteReview on xyz, and the creation of abc from the
\* default seed file or from the file named xyz.json
PairInputs(op) ==
    CASE op = "createClient" ->
            {<<>>} \X {Spread(Details("Xyz Shop"), [clientId |-> IdXyz]),
                       Spread(Details("Acme Corp"), [clientId |-> IdAbc]),
                       Spread(Details("Acme Corp"), [clientId |-> IdAbc, sourceReviewFile |-> XyzJson])}
      [] op = "updateClient" -> {IdXyz} \X UpdateBodies
      [] op = "deleteClient" -> {IdXyz} \X {EmptyObj}
      [] op = "addReview" -> {IdXyz} \X {[review |-> "Great service!!!"]}
      [] op = "deleteReview" -> {IdXyz} \X {[review |-> "Good"]}
      [] OTHER -> {}

SeedContents ==
    {Absent, Malformed, JsonNull, JsonObj(EmptyObj),
     JsonObj([reviews |-> Arr(<<>>)]),
     JsonObj([reviews |-> Arr(<<"Good", "Bad">>)]),
     JsonObj([reviews |-> NonArray])}
GoodSample == JsonObj([reviews |-> Arr(<<"Good", "Bad">>)])
AbcDocument == JsonObj(Spread(Details("Acme Corp"),
                              [clientId |-> IdAbc, reviews |-> Arr(<<"Good", "Bad", "Good">>)]))
OutsideFile == JsonObj([reviews |-> Arr(<<"Good">>)])

Files(abc, xyz, sample) ==
    [p \in Paths |->
        IF p = getClientDataPath(IdAbc) THEN abc
        ELSE IF p = getClientDataPath(IdXyz) THEN xyz
        ELSE IF p = SAMPLE_REVIEWS_FILE THEN sample
        ELSE IF InsideDataDir(p) THEN Absent
        ELSE OutsideFile]

\* the data directory before the first request: the seed files as the operator
\* left them, without a client or with two created earlier, one of them
\* without a review left (its reviews were all deleted) or without a list of
\* reviews (as another tool than the server leaves a document)
InitialFiles ==
    {Files(Absent, Absent, GoodSample),
     Files(AbcDocument,
           JsonObj(Spread(Details("Xyz Shop"), [clientId |-> IdXyz, reviews |-> Arr(<<>>)])),
           JsonObj([reviews |-> NonArray])),
     Files(AbcDocument,
           JsonObj(Spread(Details("Xyz Shop"), [clientId |-> IdXyz])),
           JsonObj([reviews |-> NonArray]))}

XyzDocument == JsonObj(Spread(Details("Xyz Shop"), [clientId |-> IdXyz, reviews |-> Arr(<<"Good">>)]))

\* the data directory with the client xyz and no other
PairFiles == Files(Absent, XyzDocument, GoodSample)

\* what a file of the data directory may hold when the clients are listed: a
\* document, text that is not JSON, null, a document without clientName or
\* without clientId
ListedContents ==
    {AbcDocument, Malformed, JsonNull,
     JsonObj(Rest(AbcDocument.obj, {"clientName"})),
     JsonObj(Rest(AbcDocument.obj, {"clientId"}))}

\* the data directories the listing is run on
ListInitialFiles ==
    {[Files(abc, xyz, GoodSample) EXCEPT ![pathJoin(DATA_DIR, OldCopyName)] = old,
                                         ![pathJoin(DATA_DIR, OldCopyLookedUpName)] = lookedUp,
                                         ![pathJoin(DATA_DIR, NotesName)] = Malformed] :
        abc \in ListedContents, xyz \in {Absent, XyzDocument},
        old \in {Absent, AbcDocument}, lookedUp \in {Absent, XyzDocument}}

\* every content of the named seed file, and every content of the default
\* seed file beside a named one that makes the loader turn to the default
SeedInitialFiles ==
    {Files(Absent, x, GoodSample) : x \in SeedContents}
    \cup {Files(Absent, x, s) : x \in {Absent, JsonObj(EmptyObj), JsonObj([reviews |-> NonArray])},
                                s \in SeedContents}

(***************************************************************************)
(* State.                                                                  *)
(***************************************************************************)
\* a request and its handler's locals.  fd is the descriptor of the handler's
\* writeJson: "none" before the open; "open" while nothing but the open (or a
\* later open) has touched the file; "overwritten" when another descriptor
\* has written into the file since; "unlinked" when the path was removed
\* since, so that the descriptor's file has no name any more.  After the
\* write it stays as the write found it.  call, size and buf belong to the
\* readJson under way: which of the handler's readJson calls it is (the
\* client file's in getClientData, the named seed file's or the default seed
\* file's in getReviewsFromFile), the size fstat reported and the
\* characters read so far.  keys is the order of the members of data, and
\* of newData once it is built.  ino and inode are the file that the
\* descriptor of the readJson or writeJson under way is open on, when the
\* path was removed since the open: the number that tells it from the other
\* files without a name, and what it holds (0 and Absent stand for the file
\* at the path).  cut is the open, write or unlink that was under way in the thread
\* pool when the process ended.  stale is history: another request's step
\* opened, wrote or removed the client file after this request opened it to
\* read and before it opened it to write
IdleReq ==
    [pc |-> "idle", op |-> "none", clientId |-> <<>>, body |-> EmptyObj,
     data |-> EmptyObj, newData |-> EmptyObj, keys |-> <<>>, initialReviews |-> Arr(<<>>),
     files |-> <<>>, clients |-> <<>>, fd |-> "none", call |-> "none", size |-> 0,
     buf |-> NotJson(0), ino |-> 0, inode |-> Absent, cut |-> "none", stale |-> FALSE]
\* a response: its status, the kind of its body (nothing sent, JSON of
\* res.json, text of res.send, empty for res.send without a body) and the
\* body; a text body is kept under the key "text"
NoRes == [status |-> 0, type |-> "none", body |-> EmptyObj]
Message(m) == [message |-> m]

\* the server has started on one of the directories files
InitWith(files) ==
    /\ fs \in files
    /\ req = [c \in Conns |-> IdleReq]
    /\ res = [c \in Conns |-> NoRes]
    /\ served = 0
    /\ lastMut = [p \in Paths |-> NoConn]
    /\ saw = [c \in Conns |-> NoConn]

Init == InitWith(InitialFiles)

\* res.status(status).json(body): the handler has answered
Respond(c, rec, status, body) ==
    /\ req' = [req EXCEPT ![c] = [rec EXCEPT !.pc = "done"]]
    /\ res' = [res EXCEPT ![c] = [status |-> status, type |-> "json", body |-> body]]

\* res.status(status).send(body): the handler has answered with a text body,
\* or with no body and no Content-Type when send is given nothing (EmptyObj)
Send(c, rec, status, body) ==
    /\ req' = [req EXCEPT ![c] = [rec EXCEPT !.pc = "done"]]
    /\ res' = [res EXCEPT ![c] = [status |-> status,
                                   type |-> IF body = EmptyObj THEN "empty" ELSE "text",
                                   body |-> body]]

\* a new request passed validation: nothing is answered yet, the handler is
\* at its first await: fs.readdir, qrcode.toDataURL or fs.pathExists
Accept(c, rec) ==
    /\ req' = [req EXCEPT ![c] = [rec EXCEPT !.pc =
                  CASE rec.op \in {"listClients", "listDataFiles"} -> "readdir"
                    [] rec.op = "generateQr" -> "qr"
                    [] OTHER -> "exists"]]
    /\ res' = [res EXCEPT ![c] = NoRes]

\* the handler suspends at its next await
Await(c, rec, pc) ==
    /\ req' = [req EXCEPT ![c] = [rec EXCEPT !.pc = pc]]
    /\ UNCHANGED res

\* an exception leaves the async handler; status is what res.status was last
\* given.  The router (Express 4: the "*" route of the file is its syntax)
\* drops the promise the handler returned, so the rejection is unhandled and
\* Node (15 and later, by default) ends the process on it: no response is
\* sent, and every other request in progress is cut off where it stands:
\* what its file-system calls did so far stays, its handler never runs
\* again, and the call it awaits may still take effect (see Lands).
Throw(c, rec, status) ==
    /\ req' = [d \in Conns |->
                  IF d = c THEN [rec EXCEPT !.pc = "rejected"]
                  ELSE IF req[d].pc \notin {"idle", "done", "rejected", "aborted"}
                       THEN [req[d] EXCEPT !.pc = "aborted",
                                           !.cut = IF req[d].pc \in {"write", "writing", "unlink"}
                                                   THEN req[d].pc ELSE "none"]
                       ELSE req[d]]
    /\ res' = [res EXCEPT ![c] = [status |-> status, type |-> "none", body |-> EmptyObj]]

(***************************************************************************)
(* getReviewsFromFile.                                                     *)
(***************************************************************************)
SecurityWarning == Arr(<<"Security warning: Invalid file path.">>)
HardFallback == Arr(<<"Excellent service!", "Very professional.">>)
DefaultFallback == Arr(<<"Excellent service!">>)

\* the default parameter and the !fileName test: absent and "" name the default file
seedFileName(body) ==
    IF Has(body, "sourceReviewFile") /\ body.sourceReviewFile # <<>>
    THEN body.sourceReviewFile
    ELSE SampleReviewsName
seedFilePath(body) == DataDirJoin[seedFileName(body)]

\* mutant: the new document takes the fallback list, not the loaded reviews
newClientData_IgnoresSeed(body, initialReviews) ==
    Spread(Rest(body, {"clientId", "sourceReviewFile"}),
           [clientId |-> body.clientId, reviews |-> DefaultFallback])

\* POST /api/client once getReviewsFromFile has returned: build the document, await the write
newClientData(body, initialReviews) ==
    Spread(Rest(body, {"clientId", "sourceReviewFile"}),
           [clientId |-> body.clientId, reviews |-> initialReviews])

\* getReviewsFromFile returns: POST /api/client builds the document and awaits the write
SeedLoaded(c, rec, reviews) ==
    LET newData == newClientData(rec.body, reviews)
    IN  Await(c, [rec EXCEPT !.initialReviews = reviews, !.newData = newData,
                             !.keys = keysOf(newData, <<>>)], "write")

\* getReviewsFromFile up to its first await: the test of the joined path
SeedPathCheck(c, rec) ==
    IF ~startsWith(seedFilePath(rec.body), DATA_DIR)
    THEN SeedLoaded(c, rec, SecurityWarning)
    ELSE /\ req' = [req EXCEPT ![c] = [rec EXCEPT !.pc = "seedExists"]]
         /\ res' = [res EXCEPT ![c] = NoRes]

\* await fs.pathExists(filePath) in getReviewsFromFile: the named file is
\* read when it exists, the default file when it does not
SeedPathExists(c) ==
    /\ req[c].pc = "seedExists"
    /\ IF pathExists(fs, seedFilePath(req[c].body))
       THEN Await(c, [req[c] EXCEPT !.call = "seed"], "open")
       ELSE Await(c, [req[c] EXCEPT !.call = "default"], "open")
    /\ UNCHANGED <<fs, served, lastMut, saw>>

(***************************************************************************)
(* The route handlers.                                                     *)
(***************************************************************************)
\* Array.prototype.indexOf, 1-based; 0 stands for -1
RECURSIVE indexOfFrom(_, _, _)
indexOfFrom(items, x, i) ==
    IF i > Len(items) THEN 0
    ELSE IF items[i] = x THEN i
    ELSE indexOfFrom(items, x, i + 1)
\* mutant: Array.prototype.lastIndexOf
indexOf_Last(items, x) ==
    IF x \in {items[i] : i \in 1..Len(items)}
    THEN CHOOSE i \in 1..Len(items) : items[i] = x /\ \A j \in (i + 1)..Len(items) : items[j] # x
    ELSE 0

indexOf(items, x) == indexOfFrom(items, x, 1)

\* Array.prototype.splice(index, 1)
splice1(items, i) == SubSeq(items, 1, i - 1) \o SubSeq(items, i + 1, Len(items))

\* data.reviews || []
reviewsOrEmpty(data) == IF Has(data, "reviews") THEN data.reviews ELSE Arr(<<>>)

\* mutant: a fixed text is returned, not an element of the list
reviewAt_Fixed(reviews, randomIndex) == "Excellent service!"

\* data.reviews[randomIndex], with the index 1-based
reviewAt(reviews, randomIndex) == reviews.items[randomIndex]

\* the values of Math.floor(Math.random() * length), 1-based
randomIndexes(length) == 1..length

\* PUT /api/client/:clientId: the merged document
updatedData(data, body, clientId) == Spread(Spread(data, body), [clientId |-> clientId])

\* mutant: the review is pushed to the back of the list
addedData_Appends(data, review) ==
    Spread(data, [reviews |-> Arr(reviewsOrEmpty(data).items \o <<review>>)])

\* POST /api/client/:clientId/reviews: the document with the review added to the front
addedData(data, review) ==
    Spread(data, [reviews |-> Arr(<<review>> \o reviewsOrEmpty(data).items)])

\* DELETE /api/client/:clientId/reviews: the document with the review at reviewIndex removed
deletedData(data, reviewIndex) ==
    Spread(data, [reviews |-> Arr(splice1(data.reviews.items, reviewIndex))])

\* the status the PUT handler passes to res.status when the client is missing
UpdateMissingStatus == 4404

\* the handlers' if (!data) branch
ClientMissing(c, rec) ==
    CASE rec.op = "updateClient" -> Throw(c, rec, UpdateMissingStatus)
      [] rec.op = "randomReview" -> Respond(c, rec, 404, Message("Client not found or has no reviews."))
      [] OTHER -> Respond(c, rec, 404, Message("Client not found."))

\* the handlers' code after getClientData returned a document whose members
\* are in the order rec.keys
ClientFound(c, rec, data) ==
    LET r == [rec EXCEPT !.data = data]
        reviews == reviewsOrEmpty(data)
        Write(newData) == Await(c, [r EXCEPT !.newData = newData,
                                             !.keys = keysOf(newData, rec.keys)], "write")
    IN  CASE rec.op = "getClientDetail" ->
                Respond(c, r, 200, Rest(data, {"reviews"}))
          [] rec.op = "listReviews" ->
                Respond(c, r, 200, [reviews |-> reviews])
          [] rec.op = "randomReview" ->
                IF ~Has(data, "reviews") \/ (IsArray(reviews) /\ reviews.items = <<>>)
                THEN Respond(c, r, 404, Message("Client not found or has no reviews."))
                ELSE IF ~IsArray(reviews)
                     THEN Respond(c, r, 200, EmptyObj)
                     ELSE \E randomIndex \in randomIndexes(Len(reviews.items)) :
                            Respond(c, r, 200, [review |-> reviewAt(reviews, randomIndex)])
          [] rec.op = "updateClient" ->
                Write(updatedData(data, rec.body, rec.clientId))
          [] rec.op = "addReview" ->
                IF ~IsArray(reviews)
                THEN Throw(c, r, 0)
                ELSE Write(addedData(data, rec.body.review))
          [] rec.op = "deleteReview" ->
                IF ~IsArray(reviews)
                THEN Throw(c, r, 0)
                ELSE LET reviewIndex == indexOf(reviews.items, rec.body.review)
                     IN  IF reviewIndex = 0
                         THEN Respond(c, r, 404, Message("Review not found."))
                         ELSE Write(deletedData(data, reviewIndex))

\* the server takes a request of connection c: the process runs, the
\* connection has no request under way
Accepting(c) ==
    /\ \A d \in Conns : req[d].pc # "rejected"
    /\ req[c].pc \in {"idle", "done"}
    /\ c = "c2" => req["c1"].pc # "idle"
    /\ served < MaxRequests

\* a request of one of the routes ops arrives, drawn from the pairs named
\* by from: validateBody, then the handler up to its first await
RequestOf(c, ops, from) ==
    /\ Accepting(c)
    /\ served' = served + 1
    /\ lastMut' = [p \in Paths |-> IF lastMut[p] = c THEN NoConn ELSE lastMut[p]]
    /\ saw' = [d \in Conns |-> IF d = c \/ saw[d] = c THEN NoConn ELSE saw[d]]
    /\ \E op \in ops :
       \E in \in (CASE from = "seeds" -> SeedInputs(op)
                     [] from = "paths" -> PathInputs(op)
                     [] from = "pairs" -> PairInputs(op)
                     [] OTHER -> Inputs(op)) :
          LET body == in[2]
              clientId == IF op # "createClient" THEN in[1]
                          ELSE IF Has(body, "clientId") THEN body.clientId ELSE <<>>
              rec == [IdleReq EXCEPT !.op = op, !.clientId = clientId, !.body = body]
          IN  IF ~validateBody(op, body)
              THEN Respond(c, rec, 400, Message("validation"))
              ELSE IF op = "deleteReview" /\ (~Has(body, "review") \/ body.review = "")
                   THEN Respond(c, rec, 400, Message("Review text is required."))
                   ELSE Accept(c, rec)
    /\ UNCHANGED fs

Request(c) ==
    RequestOf(c, {"createClient", "getClientDetail", "updateClient", "deleteClient",
                  "listReviews", "randomReview", "addReview", "deleteReview",
                  "listClients", "listDataFiles", "generateQr"}, "clients")

\* a request arrives whose body is not JSON: express.json() passes the parse
\* error on and no route runs
UnparsableRequest(c) ==
    /\ Accepting(c)
    /\ served' = served + 1
    /\ lastMut' = [p \in Paths |-> IF lastMut[p] = c THEN NoConn ELSE lastMut[p]]
    /\ saw' = [d \in Conns |-> IF d = c \/ saw[d] = c THEN NoConn ELSE saw[d]]
    /\ req' = [req EXCEPT ![c] = [IdleReq EXCEPT !.pc = "thrown", !.op = "unparsable"]]
    /\ res' = [res EXCEPT ![c] = NoRes]
    /\ UNCHANGED fs

\* history: the connection whose write or removal left the file as it is, if
\* that request is not between the open and the end of its write
LastWhole(filePath) ==
    IF lastMut[filePath] # NoConn /\ req[lastMut[filePath]].pc \in {"writing", "closingFailed"}
    THEN NoConn
    ELSE lastMut[filePath]

\* await fs.pathExists(filePath): in POST /api/client, DELETE /api/client/:clientId and getClientData
PathExists(c) ==
    /\ req[c].pc = "exists"
    /\ LET rec == req[c]
           filePath == getClientDataPath(rec.clientId)
           exists == pathExists(fs, filePath)
       IN  /\ saw' = [saw EXCEPT ![c] = LastWhole(filePath)]
           /\ CASE rec.op = "createClient" ->
                     IF exists
                     THEN Respond(c, rec, 409, Message("Client ID already exists."))
                     ELSE SeedPathCheck(c, rec)
                [] rec.op = "deleteClient" ->
                     IF exists
                     THEN Await(c, rec, "remove")
                     ELSE Respond(c, rec, 404, Message("Client not found."))
                [] OTHER ->
                     IF exists
                     THEN Await(c, [rec EXCEPT !.call = "client"], "open")
                     ELSE ClientMissing(c, rec)
    /\ UNCHANGED <<fs, served, lastMut>>

\* the path of the file the readJson call of a request reads
ReadingPath(rec) ==
    CASE rec.call = "seed" -> seedFilePath(rec.body)
      [] rec.call = "default" -> SAMPLE_REVIEWS_FILE
      [] OTHER -> getClientDataPath(rec.clientId)

\* the file a readJson under way reads from: the one at the path, or the one
\* its descriptor kept when the path was removed
FileOf(rec, filePath) == IF rec.ino = 0 THEN fs[filePath] ELSE rec.inode

\* history: what saw[c] becomes at a later call of the readJson of the client
\* file: it is kept while the file is as the request first saw it
StillSaw(c) ==
    IF req[c].call # "client" \/ LastWhole(ReadingPath(req[c])) = saw[c]
    THEN saw
    ELSE [saw EXCEPT ![c] = NoConn]

\* fs.readJson has returned the value of text, or raised when text is not
\* JSON (Absent: the open found no file): the code behind the await.  In
\* getReviewsFromFile, the Array.isArray test of the named file's reviews,
\* defaultData.reviews || ["Excellent service!"] for the default file's, and
\* the catch block; in getClientData, null for what raised, then the handler
\* up to its next await
ReadJsonReturned(c, rec, text) ==
    LET r == [rec EXCEPT !.call = "none"]
        data == readJson(text)
        raised == readJsonThrows(text) \/ readJsonIsNull(text)
    IN  CASE rec.call = "seed" ->
               IF raised
               THEN SeedLoaded(c, r, HardFallback)
               ELSE IF Has(data, "reviews") /\ IsArray(data.reviews)
                    THEN SeedLoaded(c, r, data.reviews)
                    ELSE Await(c, [r EXCEPT !.call = "default"], "open")
          [] rec.call = "default" ->
               IF raised
               THEN SeedLoaded(c, r, HardFallback)
               ELSE IF Has(data, "reviews")
                    THEN SeedLoaded(c, r, data.reviews)
                    ELSE SeedLoaded(c, r, DefaultFallback)
          [] OTHER ->
               IF raised
               THEN ClientMissing(c, r)
               ELSE ClientFound(c, [r EXCEPT !.keys = text.keys], data)

\* await fs.readJson(filePath), first turn: readFile opens the file; a
\* missing file raises
OpenJson(c) ==
    /\ req[c].pc = "open"
    /\ LET rec == req[c]
           filePath == ReadingPath(rec)
       IN  /\ saw' = IF rec.call = "client" THEN [saw EXCEPT ![c] = LastWhole(filePath)] ELSE saw
           /\ IF ~pathExists(fs, filePath)
              THEN ReadJsonReturned(c, rec, Absent)
              ELSE Await(c, rec, "fstat")
    /\ UNCHANGED <<fs, served, lastMut>>

\* await fs.readJson(filePath), second turn: fstat reports the size of the
\* file the descriptor is open on
FstatJson(c) ==
    /\ req[c].pc = "fstat"
    /\ saw' = StillSaw(c)
    /\ Await(c, [req[c] EXCEPT !.size = FileOf(req[c], ReadingPath(req[c])).len], "read")
    /\ UNCHANGED <<fs, served, lastMut>>

\* await fs.readJson(filePath), the reads: readFile reads again until it has
\* as many characters as fstat reported or a read yields nothing
ReadJson(c) ==
    /\ req[c].pc = "read"
    /\ saw' = StillSaw(c)
    /\ LET rec == req[c]
           buf == readChunk(rec.buf, rec.size, FileOf(rec, ReadingPath(rec)))
           ended == buf.len = rec.buf.len \/ (rec.size # 0 /\ buf.len = rec.size)
       IN  Await(c, [rec EXCEPT !.buf = buf], IF ended THEN "close" ELSE "read")
    /\ UNCHANGED <<fs, served, lastMut>>

\* await fs.readJson(filePath), last turn: readFile closes the descriptor,
\* JSON.parse gets the characters read and the caller goes on
CloseJson(c) ==
    /\ req[c].pc = "close"
    /\ saw' = StillSaw(c)
    /\ ReadJsonReturned(c, [req[c] EXCEPT !.size = 0, !.buf = NotJson(0), !.ino = 0, !.inode = Absent],
                        req[c].buf)
    /\ UNCHANGED <<fs, served, lastMut>>

\* mutant: a write that succeeded is answered 404
WrittenStatus_NotFound(op) == 404

\* the response each writing route sends after writeClientData returned true
WrittenStatus(op) == IF op \in {"createClient", "addReview"} THEN 201 ELSE 200
WriteFailedMessage(op) ==
    CASE op = "createClient" -> "Failed to create client file."
      [] op = "updateClient" -> "Failed to update client data."
      [] op = "addReview" -> "Failed to add review."
      [] OTHER -> "Failed to delete review."

\* the path of the file the i-th getClientData call of a listing looks at
ListedPath(rec, i) == getClientDataPath(replace(rec.files[i], DotJson, <<>>))

\* what the step of another request that touched the file at filePath makes
\* of request r: a descriptor its writeJson holds on the file becomes
\* fdAfter; when the path was removed, the descriptors its readJson calls
\* hold keep the file as it was, under a number that no other file without
\* a name has; an update or review request that has opened the file to read
\* and not yet to write is marked stale
Touched(r, filePath, fdAfter) ==
    LET unlinked == fdAfter = "unlinked"
        used == {req[d].ino : d \in Conns}
                \cup UNION {{req[d].clients[i].ino : i \in 1..Len(req[d].clients)} : d \in Conns}
        ino == CHOOSE n \in 1..(Cardinality(used) + 1) : n \notin used
        own == getClientDataPath(r.clientId) = filePath
        writing == r.pc = "writing" \/ (r.pc = "aborted" /\ r.cut = "writing")
        fd == IF writing /\ own /\ r.fd # "unlinked" THEN fdAfter ELSE r.fd
        kept == /\ unlinked
                /\ \/ r.pc \in {"fstat", "read", "close"} /\ ReadingPath(r) = filePath
                   \/ writing /\ own
                /\ r.ino = 0
        stale == \/ r.stale
                 \/ /\ own
                    /\ r.op \in {"updateClient", "addReview", "deleteReview"}
                    /\ \/ r.pc \in {"fstat", "read", "close", "write"}
                       \/ r.pc = "aborted" /\ r.cut = "write"
        clients == [i \in 1..Len(r.clients) |->
                       IF /\ unlinked
                          /\ r.clients[i].pc \in {"fstat", "read", "close"}
                          /\ ListedPath(r, i) = filePath
                          /\ r.clients[i].ino = 0
                       THEN [r.clients[i] EXCEPT !.ino = ino, !.inode = fs[filePath]]
                       ELSE r.clients[i]]
    IN  [r EXCEPT !.fd = fd, !.ino = IF kept THEN ino ELSE r.ino,
                  !.inode = IF kept THEN fs[filePath] ELSE r.inode,
                  !.stale = stale, !.clients = clients]

\* connection c's step touched the file at filePath: its own record becomes rec
Touch(c, rec, filePath, fdAfter) ==
    req' = [d \in Conns |-> IF d = c THEN rec ELSE Touched(req[d], filePath, fdAfter)]

\* what a write through a descriptor whose file has no name any more makes
\* of request r: the file of number ino holds text now, and so do the
\* descriptors that r has open on it (those that were open on the file at
\* filePath when it was removed)
WrittenUnnamed(r, filePath, ino, text) ==
    LET own == getClientDataPath(r.clientId) = filePath
        shares == /\ r.ino = ino
                  /\ \/ r.pc \in {"fstat", "read", "close"} /\ ReadingPath(r) = filePath
                     \/ (r.pc = "writing" \/ (r.pc = "aborted" /\ r.cut = "writing")) /\ own
        clients == [i \in 1..Len(r.clients) |->
                       IF /\ r.clients[i].pc \in {"fstat", "read", "close"}
                          /\ ListedPath(r, i) = filePath
                          /\ r.clients[i].ino = ino
                       THEN [r.clients[i] EXCEPT !.inode = text]
                       ELSE r.clients[i]]
    IN  [r EXCEPT !.inode = IF shares THEN text ELSE r.inode, !.clients = clients]

\* await writeClientData(clientId, data), first turn: fs.writeJson opens the
\* file with flag "w", or raises
WriteClientData(c) ==
    /\ req[c].pc = "write"
    /\ LET rec == req[c]
           filePath == getClientDataPath(rec.clientId)
       IN  \E success \in BOOLEAN :
              IF success
              THEN /\ fs' = truncate(fs, filePath)
                   /\ lastMut' = [lastMut EXCEPT ![filePath] = c]
                   /\ Touch(c, [rec EXCEPT !.pc = "writing", !.fd = "open"], filePath, "open")
                   /\ UNCHANGED res
              ELSE /\ UNCHANGED <<fs, lastMut>>
                   /\ Respond(c, rec, 500, Message(WriteFailedMessage(rec.op)))
    /\ UNCHANGED <<served, saw>>

\* await writeClientData(clientId, data), second turn: fs.writeJson writes the
\* text through its descriptor.  A descriptor whose path was removed writes
\* into a file that has no name.  When the write fails the file stays as it
\* is, and the descriptor is closed before the failure is reported
WriteJsonText(c) ==
    /\ req[c].pc = "writing"
    /\ LET rec == req[c]
           filePath == getClientDataPath(rec.clientId)
           closing == [rec EXCEPT !.pc = "closing", !.ino = 0, !.inode = Absent]
       IN  \E success \in BOOLEAN :
              IF ~success
              THEN /\ UNCHANGED <<fs, lastMut>>
                   /\ Await(c, [rec EXCEPT !.ino = 0, !.inode = Absent], "closingFailed")
              ELSE /\ IF rec.fd # "unlinked"
                      THEN /\ fs' = writeJson(fs, filePath, rec.newData, rec.keys)
                           /\ lastMut' = [lastMut EXCEPT ![filePath] = c]
                           /\ Touch(c, closing, filePath, "overwritten")
                      ELSE /\ UNCHANGED <<fs, lastMut>>
                           /\ req' = [d \in Conns |->
                                         IF d = c THEN closing
                                         ELSE WrittenUnnamed(req[d], filePath, rec.ino,
                                                             overlay(rec.inode, rec.newData,
                                                                     rec.keys))]
                   /\ UNCHANGED res
    /\ UNCHANGED <<served, saw>>

\* await writeClientData(clientId, data), last turn: fs.writeJson closes the
\* descriptor, writeClientData returns and the handler answers: with the
\* route's success status when the write and the close succeeded
WriteJsonClose(c) ==
    /\ req[c].pc \in {"closing", "closingFailed"}
    /\ \E success \in BOOLEAN :
          IF success /\ req[c].pc = "closing"
          THEN Respond(c, req[c], WrittenStatus(req[c].op),
                       CASE req[c].op = "addReview" -> [review |-> req[c].body.review]
                         [] req[c].op = "deleteReview" -> Message("Review deleted.")
                         [] OTHER -> req[c].newData)
          ELSE Respond(c, req[c], 500, Message(WriteFailedMessage(req[c].op)))
    /\ UNCHANGED <<fs, served, lastMut, saw>>

\* await fs.remove(filePath) in DELETE /api/client/:clientId, first turn:
\* fs.rm looks the path up with lstat to validate its options; with force
\* set a missing path is no error
Remove(c) ==
    /\ req[c].pc = "remove"
    /\ Await(c, req[c], "lstat")
    /\ UNCHANGED <<fs, served, lastMut, saw>>

\* await fs.remove(filePath), second turn: the removal looks the path up with
\* lstat again; when it is gone there is nothing to remove and fs.remove
\* returns: res.status(204).send()
RemoveLstat(c) ==
    /\ req[c].pc = "lstat"
    /\ IF pathExists(fs, getClientDataPath(req[c].clientId))
       THEN Await(c, req[c], "unlink")
       ELSE Send(c, req[c], 204, EmptyObj)
    /\ UNCHANGED <<fs, served, lastMut, saw>>

\* await fs.remove(filePath), third turn: the path is unlinked, or the call
\* raises; a path that is gone by now is no error.  On the errors EPERM and
\* EISDIR the removal goes on with rmdir; on another error fs.remove raises
\* and the handler's catch block answers
Unlink(c) ==
    /\ req[c].pc = "unlink"
    /\ LET rec == req[c]
           filePath == getClientDataPath(rec.clientId)
       IN  \E outcome \in {"ok", "EPERM", "EIO"} :
              CASE outcome = "EIO" ->
                     /\ UNCHANGED <<fs, lastMut>>
                     /\ Respond(c, rec, 500, Message("Error deleting client file."))
                [] outcome = "EPERM" ->
                     /\ UNCHANGED <<fs, lastMut>>
                     /\ Await(c, rec, "rmdir")
                [] OTHER ->
                     IF pathExists(fs, filePath)
                     THEN /\ fs' = remove(fs, filePath)
                          /\ lastMut' = [lastMut EXCEPT ![filePath] = c]
                          /\ Touch(c, [rec EXCEPT !.pc = "removed"], filePath, "unlinked")
                          /\ UNCHANGED res
                     ELSE /\ UNCHANGED <<fs, lastMut>>
                          /\ Await(c, rec, "removed")
    /\ UNCHANGED <<served, saw>>

\* await fs.remove(filePath), the turn behind an unlink that failed with
\* EPERM or EISDIR: rmdir of the path fails on what is a file, fs.remove
\* raises the error of the unlink and the handler's catch block answers; a
\* path that is gone by now is no error
Rmdir(c) ==
    /\ req[c].pc = "rmdir"
    /\ IF pathExists(fs, getClientDataPath(req[c].clientId))
       THEN Respond(c, req[c], 500, Message("Error deleting client file."))
       ELSE Await(c, req[c], "removed")
    /\ UNCHANGED <<fs, served, lastMut, saw>>

\* fs.remove has returned: res.status(204).send()
Removed(c) ==
    /\ req[c].pc = "removed"
    /\ Send(c, req[c], 204, EmptyObj)
    /\ UNCHANGED <<fs, served, lastMut, saw>>

(***************************************************************************)
(* GET /api/data-files, GET /api/clients, POST .../generate-qr.            *)
(***************************************************************************)
\* fs.readdir(dir): the names of the entries of the directory
readdir(files, dir) ==
    SelectSeq(DirEntries, LAMBDA name : pathExists(files, pathJoin(dir, name)))

\* files.filter((file) => file.endsWith(".json"))
jsonFilesOf(files) == SelectSeq(files, LAMBDA file : endsWith(file, DotJson))

\* the per-file promise of GET /api/clients: awaiting pathExists, awaiting
\* readJson's open, fstat, read or close (size, buf and inode as in a
\* request), or settled with a summary or with null
PendingClient ==
    [pc |-> "exists", isNull |-> TRUE, summary |-> EmptyObj, size |-> 0, buf |-> NotJson(0),
     ino |-> 0, inode |-> Absent]
NullClient == [PendingClient EXCEPT !.pc = "done"]
SummaryClient(data) ==
    [NullClient EXCEPT !.isNull = FALSE,
                       !.summary = [clientId |-> data.clientId, clientName |-> data.clientName]]

\* the map callback once getClientData has read the text:
\* data && data.clientId && data.clientName
clientOf(text) ==
    LET data == readJson(text)
    IN  IF readJsonThrows(text) \/ readJsonIsNull(text) THEN NullClient
        ELSE IF /\ Has(data, "clientId") /\ data.clientId # <<>>
                /\ Has(data, "clientName") /\ data.clientName # ""
             THEN SummaryClient(data)
             ELSE NullClient

\* clients.filter((client) => client !== null)
RECURSIVE nonNullClients(_)
nonNullClients(clients) ==
    IF clients = <<>> THEN <<>>
    ELSE (IF Head(clients).isNull THEN <<>> ELSE <<Head(clients).summary>>)
         \o nonNullClients(Tail(clients))

\* one of the promises moved on; when all are settled Promise.all resolves and the handler answers
ClientSettled(c, i, client) ==
    LET clients == [req[c].clients EXCEPT ![i] = client]
        rec == [req[c] EXCEPT !.clients = clients]
    IN  IF \A j \in 1..Len(clients) : clients[j].pc = "done"
        THEN Respond(c, rec, 200, [clients |-> nonNullClients(clients)])
        ELSE Await(c, rec, "listing")

\* await fs.readdir(DATA_DIR) in GET /api/data-files and GET /api/clients
Readdir(c) ==
    /\ req[c].pc = "readdir"
    /\ LET rec == req[c]
           jsonFiles == jsonFilesOf(readdir(fs, DATA_DIR))
           listing == [rec EXCEPT !.files = jsonFiles,
                                  !.clients = [i \in 1..Len(jsonFiles) |-> PendingClient]]
       IN  \E success \in BOOLEAN :
              IF ~success
              THEN Respond(c, rec, 500,
                           Message(IF rec.op = "listClients"
                                   THEN "Error reading client directory."
                                   ELSE "Error reading data directory."))
              ELSE IF rec.op = "listDataFiles"
                   THEN Respond(c, rec, 200, [files |-> jsonFiles])
                   ELSE IF jsonFiles = <<>>
                        THEN Respond(c, listing, 200, [clients |-> <<>>])
                        ELSE Await(c, listing, "listing")
    /\ UNCHANGED <<fs, served, lastMut, saw>>

\* await fs.pathExists(filePath) in the getClientData call of one listed file
ListPathExists(c) ==
    /\ req[c].pc = "listing"
    /\ \E i \in 1..Len(req[c].files) :
          /\ req[c].clients[i].pc = "exists"
          /\ IF pathExists(fs, ListedPath(req[c], i))
             THEN ClientSettled(c, i, [PendingClient EXCEPT !.pc = "open"])
             ELSE ClientSettled(c, i, NullClient)
    /\ UNCHANGED <<fs, served, lastMut, saw>>

\* await fs.readJson(filePath) in the getClientData call of one listed file,
\* first turn: the open; a missing file raises
ListOpenJson(c) ==
    /\ req[c].pc = "listing"
    /\ \E i \in 1..Len(req[c].files) :
          /\ req[c].clients[i].pc = "open"
          /\ IF pathExists(fs, ListedPath(req[c], i))
             THEN ClientSettled(c, i, [PendingClient EXCEPT !.pc = "fstat"])
             ELSE ClientSettled(c, i, NullClient)
    /\ UNCHANGED <<fs, served, lastMut, saw>>

\* the same, second turn: fstat reports the size
ListFstatJson(c) ==
    /\ req[c].pc = "listing"
    /\ \E i \in 1..Len(req[c].files) :
          LET client == req[c].clients[i]
          IN  /\ client.pc = "fstat"
              /\ ClientSettled(c, i, [client EXCEPT !.pc = "read",
                                                    !.size = FileOf(client, ListedPath(req[c], i)).len])
    /\ UNCHANGED <<fs, served, lastMut, saw>>

\* the same, the reads
ListReadJson(c) ==
    /\ req[c].pc = "listing"
    /\ \E i \in 1..Len(req[c].files) :
          LET client == req[c].clients[i]
              buf == readChunk(client.buf, client.size, FileOf(client, ListedPath(req[c], i)))
              ended == buf.len = client.buf.len \/ (client.size # 0 /\ buf.len = client.size)
          IN  /\ client.pc = "read"
              /\ ClientSettled(c, i, [client EXCEPT !.pc = IF ended THEN "close" ELSE "read",
                                                    !.buf = buf])
    /\ UNCHANGED <<fs, served, lastMut, saw>>

\* the same, last turn: the close and JSON.parse
ListCloseJson(c) ==
    /\ req[c].pc = "listing"
    /\ \E i \in 1..Len(req[c].files) :
          /\ req[c].clients[i].pc = "close"
          /\ ClientSettled(c, i, clientOf(req[c].clients[i].buf))
    /\ UNCHANGED <<fs, served, lastMut, saw>>

\* the open, write or unlink that a request awaited when the process ended
\* was already handed to the thread pool: it may still take effect while
\* the process goes down, and nobody is told
Lands(c) ==
    /\ req[c].pc = "aborted"
    /\ req[c].cut # "none"
    /\ LET rec == [req[c] EXCEPT !.cut = "none"]
           filePath == getClientDataPath(rec.clientId)
       IN  CASE req[c].cut = "write" ->
                  /\ fs' = truncate(fs, filePath)
                  /\ lastMut' = [lastMut EXCEPT ![filePath] = c]
                  /\ Touch(c, [rec EXCEPT !.fd = "open"], filePath, "open")
             [] req[c].cut = "writing" /\ rec.fd # "unlinked" ->
                  /\ fs' = writeJson(fs, filePath, rec.newData, rec.keys)
                  /\ lastMut' = [lastMut EXCEPT ![filePath] = c]
                  /\ Touch(c, rec, filePath, "overwritten")
             [] req[c].cut = "unlink" /\ pathExists(fs, filePath) ->
                  /\ fs' = remove(fs, filePath)
                  /\ lastMut' = [lastMut EXCEPT ![filePath] = c]
                  /\ Touch(c, rec, filePath, "unlinked")
             [] OTHER ->
                  /\ req' = [req EXCEPT ![c] = [rec EXCEPT !.ino = 0, !.inode = Absent]]
                  /\ UNCHANGED <<fs, lastMut>>
    /\ UNCHANGED <<res, served, saw>>

\* await qrcode.toDataURL(reviewPageUrl): the image, or an exception the handler catches
GenerateQr(c) ==
    /\ req[c].pc = "qr"
    /\ \E success \in BOOLEAN :
          IF success
          THEN Respond(c, req[c], 200, [qrDataUrl |-> "data:image/png", link |-> req[c].clientId])
          ELSE Respond(c, req[c], 500, Message("Failed to generate QR code."))
    /\ UNCHANGED <<fs, served, lastMut, saw>>

\* the error-handling middleware: it gets the errors passed to next(), the
\* body parser's among them, and answers with a text body; the rejection of
\* an async handler never reaches it
ErrorHandler(c) ==
    /\ req[c].pc = "thrown"
    /\ Send(c, req[c], 500, [text |-> "Something broke!"])
    /\ UNCHANGED <<fs, served, lastMut, saw>>

Next ==
    \E c \in Conns :
        \/ Request(c)
        \/ UnparsableRequest(c)
        \/ PathExists(c)
        \/ SeedPathExists(c)
        \/ OpenJson(c)
        \/ FstatJson(c)
        \/ ReadJson(c)
        \/ CloseJson(c)
        \/ WriteClientData(c)
        \/ WriteJsonText(c)
        \/ WriteJsonClose(c)
        \/ Remove(c)
        \/ RemoveLstat(c)
        \/ Unlink(c)
        \/ Rmdir(c)
        \/ Removed(c)
        \/ Readdir(c)
        \/ ListPathExists(c)
        \/ ListOpenJson(c)
        \/ ListFstatJson(c)
        \/ ListReadJson(c)
        \/ ListCloseJson(c)
        \/ GenerateQr(c)
        \/ ErrorHandler(c)
        \/ Lands(c)

Spec == Init /\ [][Next]_vars

\* every awaited file-system or library call of a request in progress
\* completes while the process runs, and the middleware chain runs to its end
FsStepsFair ==
    \A c \in Conns :
        /\ WF_vars(PathExists(c))
        /\ WF_vars(SeedPathExists(c))
        /\ WF_vars(OpenJson(c))
        /\ WF_vars(FstatJson(c))
        /\ WF_vars(ReadJson(c))
        /\ WF_vars(CloseJson(c))
        /\ WF_vars(WriteClientData(c))
        /\ WF_vars(WriteJsonText(c))
        /\ WF_vars(WriteJsonClose(c))
        /\ WF_vars(Remove(c))
        /\ WF_vars(RemoveLstat(c))
        /\ WF_vars(Unlink(c))
        /\ WF_vars(Rmdir(c))
        /\ WF_vars(Removed(c))
        /\ WF_vars(Readdir(c))
        /\ WF_vars(ListPathExists(c))
        /\ WF_vars(ListOpenJson(c))
        /\ WF_vars(ListFstatJson(c))
        /\ WF_vars(ListReadJson(c))
        /\ WF_vars(ListCloseJson(c))
        /\ WF_vars(GenerateQr(c))
        /\ WF_vars(ErrorHandler(c))

LiveSpec == Init /\ [][Next]_vars /\ FsStepsFair

(***************************************************************************)
(* Client creation over every state of the seed files: the requests are    *)
(* createClient and listReviews.                                           *)
(***************************************************************************)
CreateOrListRequest(c) == RequestOf(c, {"createClient", "listReviews"}, "seeds")

SeedNext ==
    \E c \in Conns :
        \/ CreateOrListRequest(c)
        \/ PathExists(c)
        \/ SeedPathExists(c)
        \/ OpenJson(c)
        \/ FstatJson(c)
        \/ ReadJson(c)
        \/ CloseJson(c)
        \/ WriteClientData(c)
        \/ WriteJsonText(c)
        \/ WriteJsonClose(c)

SeedSpec == InitWith(SeedInitialFiles) /\ [][SeedNext]_vars

(***************************************************************************)
(* The client listing over every content of the data directory: one        *)
(* connection lists the clients while the other deletes one.               *)
(***************************************************************************)
ListOrDeleteRequest(c) ==
    RequestOf(c, IF c = "c1" THEN {"listClients"} ELSE {"deleteClient"}, "clients")

ListNext ==
    \E c \in Conns :
        \/ ListOrDeleteRequest(c)
        \/ Readdir(c)
        \/ ListPathExists(c)
        \/ ListOpenJson(c)
        \/ ListFstatJson(c)
        \/ ListReadJson(c)
        \/ ListCloseJson(c)
        \/ PathExists(c)
        \/ Remove(c)
        \/ RemoveLstat(c)
        \/ Unlink(c)
        \/ Rmdir(c)
        \/ Removed(c)

ListSpec == InitWith(ListInitialFiles) /\ [][ListNext]_vars

(***************************************************************************)
(* Requests whose identifier is not a client's.                            *)
(***************************************************************************)
PathRequest(c) ==
    RequestOf(c, {"createClient", "getClientDetail", "updateClient", "deleteClient", "addReview"},
              "paths")

PathNext ==
    \E c \in Conns :
        \/ PathRequest(c)
        \/ PathExists(c)
        \/ OpenJson(c)
        \/ FstatJson(c)
        \/ ReadJson(c)
        \/ CloseJson(c)
        \/ WriteClientData(c)
        \/ WriteJsonText(c)
        \/ WriteJsonClose(c)
        \/ Remove(c)
        \/ RemoveLstat(c)
        \/ Unlink(c)
        \/ Rmdir(c)
        \/ Removed(c)
        \/ Lands(c)

PathSpec == Init /\ [][PathNext]_vars

(***************************************************************************)
(* Requests on two identifiers: the client xyz exists, abc is created.     *)
(***************************************************************************)
PairRequest(c) ==
    RequestOf(c, {"createClient", "updateClient", "deleteClient", "addReview", "deleteReview"},
              "pairs")

PairNext ==
    \E c \in Conns :
        \/ PairRequest(c)
        \/ PathExists(c)
        \/ SeedPathExists(c)
        \/ OpenJson(c)
        \/ FstatJson(c)
        \/ ReadJson(c)
        \/ CloseJson(c)
        \/ WriteClientData(c)
        \/ WriteJsonText(c)
        \/ WriteJsonClose(c)
        \/ Remove(c)
        \/ RemoveLstat(c)
        \/ Unlink(c)
        \/ Rmdir(c)
        \/ Removed(c)
        \/ Lands(c)

PairSpec == InitWith({PairFiles}) /\ [][PairNext]_vars

(***************************************************************************)
(* Properties.                                                             *)
(***************************************************************************)
\* connection c holds the answered request of route op with this status
Answered(c, op, status) ==
    /\ req[c].op = op
    /\ req[c].pc = "done"
    /\ res[c].status = status

ClientPath(c) == getClientDataPath(req[c].clientId)

\* connection c's write went through a descriptor that no other request
\* wrote through or unlinked between the open and the write
WroteAlone(c) == req[c].fd = "open"

\* where a request is during its writeJson and during its fs.remove
WritePcs == {"write", "writing", "closing", "closingFailed"}
RemovePcs == {"remove", "lstat", "unlink", "rmdir", "removed"}
\* where a request is during a readJson
ReadPcs == {"open", "fstat", "read", "close"}

\* C1: a read of the client's reviews that follows a successful createClient,
\* with no other write or removal of the client's file since createClient
\* opened it, succeeds and returns exactly what the seed loader returned to
\* that createClient.
C1_CreateThenReadYieldsSeed ==
    \A p \in Conns : \A q \in Conns :
        ( /\ Answered(p, "createClient", 201)
          /\ WroteAlone(p)
          /\ req[q].op = "listReviews"
          /\ req[q].pc = "done"
          /\ saw[q] = p )
        => /\ ClientPath(q) = ClientPath(p)
           /\ res[q].status = 200
           /\ res[q].body.reviews = req[p].initialReviews
           /\ res[p].body.reviews = req[p].initialReviews

\* C1 witness: a client created from the named seed file has been read back
C1_Witness ==
    \E p \in Conns : \E q \in Conns :
        /\ Answered(p, "createClient", 201)
        /\ Has(req[p].body, "sourceReviewFile")
        /\ req[p].body.sourceReviewFile = XyzJson
        /\ req[p].initialReviews = Arr(<<"Good", "Bad">>)
        /\ Answered(q, "listReviews", 200)
        /\ saw[q] = p
        /\ res[q].body.reviews = Arr(<<"Good", "Bad">>)

\* C2: a createClient that finds the document an earlier createClient wrote
\* (nothing else wrote or removed the file since that call opened it) answers
\* 409 Conflict, writes nothing, and the file still holds the first call's
\* document, whatever details or seed name the second call carries.
C2_SecondCreateConflicts ==
    \A p \in Conns : \A q \in Conns :
        ( /\ Answered(p, "createClient", 201)
          /\ WroteAlone(p)
          /\ req[q].op = "createClient"
          /\ req[q].pc \notin {"idle", "exists"}
          /\ saw[q] = p )
        => /\ ClientPath(q) = ClientPath(p)
           /\ req[q].pc = "done"
           /\ res[q].status = 409
           /\ lastMut[ClientPath(p)] = p
           /\ fs[ClientPath(p)] = JsonObj(res[p].body)

\* C2 witness: the second call carried another seed name than the first
C2_Witness ==
    \E p \in Conns : \E q \in Conns :
        /\ Answered(p, "createClient", 201)
        /\ Answered(q, "createClient", 409)
        /\ saw[q] = p
        /\ req[q].body.clientName # req[p].body.clientName
        /\ fs[ClientPath(p)].obj.clientName = req[p].body.clientName

\* the reviews member a path's document holds; NoReviews when there is none
NoReviews == [t |-> "none", items |-> <<>>]
ReviewsOf(o) == IF Has(o, "reviews") THEN o.reviews ELSE NoReviews
\* the text the writeJson of connection c's request makes of its document
Serialized(c) == [JsonObj(req[c].newData) EXCEPT !.keys = req[c].keys]
PersistedReviews(files, p) == IF files[p].kind = "obj" THEN ReviewsOf(files[p].obj) ELSE NoReviews

\* the call of connection c's request that was under way when the process
\* ended takes effect in this step
Landed(c, call) ==
    /\ req[c].pc = "aborted"
    /\ req[c].cut = call
    /\ req'[c].cut = "none"

\* connection c's request of route op begins its write in this step: the file is opened
Opened(c, op) ==
    /\ req[c].op = op
    /\ \/ req[c].pc = "write" /\ req'[c].pc = "writing"
       \/ Landed(c, "write")

\* the text of connection c's request of route op is written in this step
Wrote(c, op) ==
    /\ req[c].op = op
    /\ \/ req[c].pc = "writing" /\ req'[c].pc = "closing"
       \/ Landed(c, "writing")

\* the write of connection c's request of route op fails in this step
WriteFailed(c, op) ==
    /\ req[c].op = op
    /\ req[c].pc = "writing"
    /\ req'[c].pc = "closingFailed"

\* C3 as stated: in every execution the reviews updateClient's write persists
\* equal the reviews persisted right before the write begins.
C3_UpdateNeverChangesReviews ==
    [][\A c \in Conns :
          Opened(c, "updateClient")
          => ReviewsOf(req[c].newData) = PersistedReviews(fs, ClientPath(c))]_vars

\* C3 amended: the document updateClient writes carries exactly the reviews
\* of the document it read, whatever the payload.  When no other request
\* opened for writing, wrote or removed the file between updateClient's
\* opening it to read and opening it to write, these are the reviews
\* persisted right before the write.  A write that succeeds and that no
\* other request wrote into or unlinked persists the written document.  A
\* write that fails leaves the file as the open left it, empty unless
\* another request wrote into it since, and the request is answered 500.
C3_UpdateWritesBackReviewsRead ==
    [][\A c \in Conns :
          /\ Opened(c, "updateClient")
                => ReviewsOf(req[c].newData) = ReviewsOf(req[c].data)
          /\ (Opened(c, "updateClient") /\ ~req[c].stale)
                => PersistedReviews(fs, ClientPath(c)) = ReviewsOf(req[c].data)
          /\ (Wrote(c, "updateClient") /\ WroteAlone(c))
                => /\ fs'[ClientPath(c)] = Serialized(c)
                   /\ PersistedReviews(fs', ClientPath(c)) = ReviewsOf(req[c].data)
          /\ WriteFailed(c, "updateClient")
                => /\ fs' = fs
                   /\ WroteAlone(c) => fs[ClientPath(c)] = NotJson(0)
          /\ (req[c].op = "updateClient" /\ req[c].pc = "closingFailed" /\ req'[c].pc = "done")
                => res'[c].status = 500]_vars

\* C3 witness: an update that no request interfered with changed the
\* client's name and kept its three reviews
C3_Witness ==
    \E c \in Conns :
        /\ Answered(c, "updateClient", 200)
        /\ req[c].data.clientName = "Acme Corp"
        /\ ~req[c].stale
        /\ WroteAlone(c)
        /\ lastMut[ClientPath(c)] = c
        /\ fs[ClientPath(c)].obj.clientName = "Acme Ltd"
        /\ fs[ClientPath(c)].obj.reviews = Arr(<<"Good", "Bad", "Good">>)

\* C4: a listReviews that follows a successful addReview(id, t), with no
\* other write or removal of the file since addReview opened it, returns t
\* followed by the list R that addReview found: first element t, length
\* |R| + 1, the elements of R after it in their order; addReview's response
\* carries t.
C4_AddThenListPrepends ==
    \A p \in Conns : \A q \in Conns :
        ( /\ Answered(p, "addReview", 201)
          /\ WroteAlone(p)
          /\ req[q].op = "listReviews"
          /\ req[q].pc = "done"
          /\ saw[q] = p )
        => LET R == reviewsOrEmpty(req[p].data).items
               t == req[p].body.review
               listed == res[q].body.reviews
           IN  /\ res[q].status = 200
               /\ IsArray(listed)
               /\ Len(listed.items) = Len(R) + 1
               /\ listed.items[1] = t
               /\ \A i \in 1..Len(R) : listed.items[i + 1] = R[i]
               /\ res[p].body = [review |-> t]

\* C4 witness: a review was added in front of three earlier ones and listed
C4_Witness ==
    \E p \in Conns : \E q \in Conns :
        /\ Answered(p, "addReview", 201)
        /\ Answered(q, "listReviews", 200)
        /\ saw[q] = p
        /\ res[q].body.reviews = Arr(<<"Great service!!!", "Good", "Bad", "Good">>)

\* the elements of a sequence
Range(seq) == {seq[i] : i \in 1..Len(seq)}

\* connection c's deleteReview has read the client's document
DeleteReviewHasRead(c) ==
    /\ req[c].op = "deleteReview"
    /\ \/ req[c].pc \in WritePcs
       \/ /\ req[c].pc = "done"
          /\ res[c].body \in {Message("Review not found."), Message("Review deleted."),
                              Message("Failed to delete review.")}

\* C5: for a deleteReview(id, t) that read the client's list R: if t is not in
\* R it answers 404 and writes nothing; if t is in R the document it writes
\* differs from the one read only in reviews, which is R without the
\* occurrence of t at the smallest index, and a successful call whose write
\* no other request wrote into or unlinked persists it.
C5_DeleteReviewRemovesFirst ==
    \A c \in Conns :
        DeleteReviewHasRead(c)
        => LET R == reviewsOrEmpty(req[c].data).items
               t == req[c].body.review
               after == req[c].newData
           IN  IF t \notin Range(R)
               THEN /\ req[c].pc = "done"
                    /\ res[c].status = 404
                    /\ lastMut[ClientPath(c)] # c
               ELSE /\ \E i \in 1..Len(R) :
                          /\ R[i] = t
                          /\ \A j \in 1..(i - 1) : R[j] # t
                          /\ Len(after.reviews.items) = Len(R) - 1
                          /\ \A j \in 1..(Len(R) - 1) :
                                after.reviews.items[j] = IF j < i THEN R[j] ELSE R[j + 1]
                    /\ Rest(after, {"reviews"}) = Rest(req[c].data, {"reviews"})
                    /\ (res[c].status = 200 /\ WroteAlone(c) /\ lastMut[ClientPath(c)] = c)
                          => fs[ClientPath(c)] = Serialized(c)
                    /\ res[c].status \in {0, 200, 500}

\* C5 witness: "Good" was deleted from Good, Bad, Good and the later duplicate
\* stayed; another call asked for a text that is not in the list, was
\* answered 404 "Review not found." and left the file as the first call wrote it
C5_Witness ==
    \E c \in Conns : \E d \in Conns :
        /\ Answered(c, "deleteReview", 200)
        /\ req[c].data.reviews = Arr(<<"Good", "Bad", "Good">>)
        /\ req[c].body.review = "Good"
        /\ WroteAlone(c)
        /\ lastMut[ClientPath(c)] = c
        /\ fs[ClientPath(c)].kind = "obj"
        /\ fs[ClientPath(c)].obj.reviews = Arr(<<"Bad", "Good">>)
        /\ Answered(d, "deleteReview", 404)
        /\ req[d].body.review = "Great service!!!"
        /\ res[d].body = Message("Review not found.")
        /\ req[d].data.reviews = Arr(<<"Bad", "Good">>)

\* the paths of the model that lie outside the data directory
OutsidePaths == {p \in Paths : ~InsideDataDir(p)}

\* C6: an identifier that resolves outside the data root is rejected: its
\* request never reads, writes or removes the file it resolves to, the files
\* outside the root are never written or removed, and the answer is an
\* unsafe-path signal, which is neither a success nor 404 NotFound.
C6_NoAccessOutsideDataRoot ==
    /\ \A p \in OutsidePaths : lastMut[p] = NoConn
    /\ \A c \in Conns :
          (req[c].pc # "idle" /\ ClientPath(c) \in OutsidePaths)
          => /\ req[c].pc \notin ReadPcs \cup WritePcs \cup RemovePcs
             /\ res[c].status \notin {200, 201, 204, 404}

\* C7: when two addReview requests on one client file both succeeded and
\* neither read the other's write, the file holds the list of the one that
\* wrote later (its write begun after the other's had ended), its text in
\* front of what it read, and the earlier writer's text is lost.
C7_LaterAddOverwritesEarlier ==
    \A p \in Conns : \A q \in Conns :
        ( /\ p # q
          /\ Answered(p, "addReview", 201)
          /\ Answered(q, "addReview", 201)
          /\ ClientPath(p) = ClientPath(q)
          /\ saw[p] # q
          /\ saw[q] # p
          /\ WroteAlone(q)
          /\ lastMut[ClientPath(q)] = q )
        => LET R == reviewsOrEmpty(req[q].data).items
               persisted == fs[ClientPath(q)].obj.reviews.items
           IN  /\ persisted = <<req[q].body.review>> \o R
               /\ (req[p].body.review # req[q].body.review /\ req[p].body.review \notin Range(R))
                     => req[p].body.review \notin Range(persisted)

\* C7 witness: both calls answered 201 and only one of the two texts is persisted
C7_Witness ==
    \E p \in Conns : \E q \in Conns :
        /\ p # q
        /\ Answered(p, "addReview", 201)
        /\ Answered(q, "addReview", 201)
        /\ ClientPath(p) = ClientPath(q)
        /\ saw[p] # q
        /\ saw[q] # p
        /\ req[p].body.review # req[q].body.review
        /\ WroteAlone(q)
        /\ lastMut[ClientPath(q)] = q
        /\ fs[ClientPath(q)].kind = "obj"
        /\ req[q].body.review \in Range(fs[ClientPath(q)].obj.reviews.items)
        /\ req[p].body.review \notin Range(fs[ClientPath(q)].obj.reviews.items)

\* connection d's request opens, writes or removes its file in this step
Mutates(d) ==
    /\ \/ req[d].pc \in {"write", "writing", "unlink"} /\ req'[d].pc # req[d].pc
       \/ \E call \in {"write", "writing", "unlink"} : Landed(d, call)
    /\ fs' # fs

\* C8 as stated, for a = xyz and b = abc: whatever steps of create, update,
\* delete, addReview and deleteReview on xyz are interleaved with the
\* creation of abc, the response about abc and the document persisted for
\* abc are those of a run without the operations on xyz: abc gets the
\* reviews of the seed file its request names as the data directory held
\* it before the first request.
C8_DifferentIdsIndependent ==
    \A c \in Conns :
        (Answered(c, "createClient", 201) /\ req[c].clientId = IdAbc)
        => LET seed == PairFiles[seedFilePath(req[c].body)].obj.reviews
           IN  /\ res[c].body.reviews = seed
               /\ (WroteAlone(c) /\ lastMut[ClientPath(c)] = c)
                     => PersistedReviews(fs, ClientPath(c)) = seed

\* connection c's createClient is past the seed loader
SeedLoaderReturned(c) ==
    /\ req[c].op = "createClient"
    /\ \/ req[c].pc \in WritePcs
       \/ req[c].pc = "done" /\ res[c].status \in {201, 500}

\* C9: the seed loader always returns a non-empty sequence of review strings,
\* so every created client starts with a non-empty reviews list.
C9_SeedNeverEmpty ==
    \A c \in Conns :
        SeedLoaderReturned(c)
        => /\ IsArray(req[c].initialReviews)
           /\ Len(req[c].initialReviews.items) >= 1
           /\ Answered(c, "createClient", 201)
                => Len(res[c].body.reviews.items) >= 1

\* C10: updateClient on an identifier with no document answers 404 like the
\* other routes do for an absent client, and writes nothing.
C10_MissingClientIs404 ==
    [][\A c \in Conns :
          ( /\ req[c].op \in {"updateClient", "getClientDetail", "deleteClient",
                              "listReviews", "addReview"}
            /\ req[c].pc = "exists"
            /\ ~pathExists(fs, ClientPath(c))
            /\ req'[c].pc # "exists" )
          => /\ req'[c].pc = "done"
             /\ res'[c].status = 404
             /\ fs' = fs]_vars

(***************************************************************************)
(* Identity of the persisted documents.                                    *)
(***************************************************************************)
\* the key a file of the data directory is stored under: its name without the extension
KeyOf(p) ==
    LET file == basename(p)
    IN  IF endsWith(file, DotJson) THEN SubSeq(file, 1, Len(file) - Len(DotJson)) ELSE file

\* the files of the data directory that hold a client document: a JSON object
\* with a clientId member
ClientDocuments ==
    {p \in Paths : InsideDataDir(p) /\ fs[p].kind = "obj" /\ Has(fs[p].obj, "clientId")}

\* C11: every persisted client document stored under the key id has its
\* clientId member equal to id, in every reachable state: create forces it,
\* update re-forces it, addReview and deleteReview keep it; hence no two keys
\* hold documents with the same clientId.
C11_ClientIdIsKey ==
    /\ \A p \in ClientDocuments : fs[p].obj.clientId = KeyOf(p)
    /\ \A p \in ClientDocuments : \A q \in ClientDocuments :
          fs[p].obj.clientId = fs[q].obj.clientId => p = q

(***************************************************************************)
(* Seed files.                                                             *)
(***************************************************************************)
\* the seed files of the data directory: JSON files that are not client documents
SeedFiles == {p \in Paths : InsideDataDir(p) /\ fs[p].kind = "obj" /\ p \notin ClientDocuments}

\* C12: seed files are read-only for the store: no step of createClient,
\* updateClient, deleteClient, addReview or deleteReview, whatever identifier
\* the route accepted, modifies or removes a seed file of the data directory,
\* the default seed file sample-reviews-200.json included.
C12_SeedFilesReadOnly ==
    [][\A p \in SeedFiles : fs'[p] = fs[p]]_vars

(***************************************************************************)
(* Deletion.                                                               *)
(***************************************************************************)
\* C13: once a deleteClient(id) has answered 204, every getClientDetail,
\* listReviews, randomReview, updateClient, addReview and deleteReview on id
\* that looks at the file as the removal left it answers 404 NotFound and
\* the file stays absent; a deleteClient that finds no file answers 404 and
\* has written or removed nothing.
C13_DeletedClientIsNotFound ==
    /\ \A p \in Conns : \A q \in Conns :
          ( /\ Answered(p, "deleteClient", 204)
            /\ req[q].op \in {"getClientDetail", "listReviews", "randomReview",
                               "updateClient", "addReview", "deleteReview"}
            /\ req[q].pc \notin {"idle", "exists"}
            /\ saw[q] = p )
          => /\ ClientPath(q) = ClientPath(p)
             /\ req[q].pc = "done"
             /\ res[q].status = 404
             /\ fs[ClientPath(p)] = Absent
    /\ \A q \in Conns :
          Answered(q, "deleteClient", 404) => lastMut[ClientPath(q)] # q

(***************************************************************************)
(* Random review.                                                          *)
(***************************************************************************)
\* connection c's randomReview request has been answered
RandomReviewAnswered(c) == req[c].op = "randomReview" /\ req[c].pc = "done"

\* C14: an answered randomReview(id) that found a client whose reviews are a
\* non-empty list R answers 200 with R[i] for an index i of R; one that found
\* no client, or a client with an empty or missing reviews list, answers 404;
\* a randomReview request never awaits a write or a removal and has changed
\* no file.
C14_RandomReviewReturnsElement ==
    \A c \in Conns :
        /\ req[c].op = "randomReview"
              => /\ req[c].pc \notin WritePcs \cup RemovePcs \cup {"seedExists"}
                 /\ req[c].call \notin {"seed", "default"}
                 /\ \A p \in Paths : lastMut[p] # c
        /\ RandomReviewAnswered(c)
              => LET data == req[c].data
                 IN  IF Has(data, "reviews") /\ IsArray(data.reviews) /\ data.reviews.items # <<>>
                     THEN /\ res[c].status = 200
                          /\ \E i \in 1..Len(data.reviews.items) :
                                res[c].body = [review |-> data.reviews.items[i]]
                     ELSE (~Has(data, "reviews") \/ IsArray(data.reviews))
                             => res[c].status = 404

\* C14 witness: the second of the three reviews of abc was returned, and the
\* request on xyz, whose document has an empty list, was answered 404
C14_Witness ==
    \E c \in Conns : \E d \in Conns :
        /\ Answered(c, "randomReview", 200)
        /\ req[c].data.reviews = Arr(<<"Good", "Bad", "Good">>)
        /\ res[c].body = [review |-> "Bad"]
        /\ Answered(d, "randomReview", 404)
        /\ req[d].clientId = IdXyz
        /\ Has(req[d].data, "reviews")
        /\ req[d].data.reviews = Arr(<<>>)

(***************************************************************************)
(* Listing the clients.                                                    *)
(***************************************************************************)
\* the JSON files of the data directory
JsonFilePaths ==
    {p \in Paths : dirname(p) = DATA_DIR /\ pathExists(fs, p) /\ endsWith(p, DotJson)}

\* the file parses and has both fields of a summary
ParsesWithBothFields(p) ==
    /\ fs[p].kind = "obj"
    /\ Has(fs[p].obj, "clientId")
    /\ Has(fs[p].obj, "clientName")

SummaryOfFile(p) == [clientId |-> fs[p].obj.clientId, clientName |-> fs[p].obj.clientName]

\* the number of positions of seq that hold x
Count(seq, x) == Cardinality({i \in 1..Len(seq) : seq[i] = x})

\* connection c's listClients request got the directory's entries
ListingStarted(c) ==
    /\ req[c].op = "listClients"
    /\ \/ req[c].pc = "listing"
       \/ req[c].pc = "done" /\ res[c].status # 500

\* no request in progress has written or removed a file
NoFileChanged == \A p \in Paths : lastMut[p] = NoConn

\* C15: a listClients that read the directory is never aborted by a file: it
\* answers 200, and over a directory no other request changed it returns
\* exactly one {clientId, clientName} summary per JSON file that parses and
\* has both fields, and nothing for a file that is malformed or lacks one of
\* them (seed files are not listed).
C15_ListClientsSkipsBrokenFiles ==
    \A c \in Conns :
        /\ (ListingStarted(c) /\ req[c].pc = "done") => res[c].status = 200
        /\ (Answered(c, "listClients", 200) /\ NoFileChanged)
              => LET listed == res[c].body.clients
                     expected == {SummaryOfFile(p) : p \in {q \in JsonFilePaths : ParsesWithBothFields(q)}}
                 IN  \A x \in Range(listed) \cup expected :
                        Count(listed, x) =
                            Cardinality({p \in JsonFilePaths :
                                            ParsesWithBothFields(p) /\ SummaryOfFile(p) = x})

(***************************************************************************)
(* Termination.                                                            *)
(***************************************************************************)
\* connection c's request has been taken up and has no response yet
Pending(c) == req[c].pc \notin {"idle", "done"}

\* C17: under fair scheduling of the file-system steps every request that
\* was taken up is eventually answered, on its success and on its failure
\* paths alike; none stays pending forever or ends without a response.
C17_EveryRequestAnswered ==
    \A c \in Conns : Pending(c) ~> (req[c].pc = "done")

(***************************************************************************)
(* Creation and deletion under interleaving.                               *)
(***************************************************************************)
\* C18: of the createClient calls on one identifier that overlap, at most one
\* answers 201: a createClient writes only a file that its open creates,
\* never one that another createClient has opened or written, and the
\* persisted document is the one returned with the 201.
C18_CreateIsUnique ==
    [][\A c \in Conns :
          /\ Opened(c, "createClient") => ~pathExists(fs, ClientPath(c))
          /\ (Wrote(c, "createClient") /\ req[c].fd # "unlinked")
                => fs'[ClientPath(c)] = Serialized(c)]_vars

\* connection c's updateClient, addReview or deleteReview begins its write in this step
MutationOpened(c) ==
    \E op \in {"updateClient", "addReview", "deleteReview"} : Opened(c, op)

\* C19: once a deleteClient(id) has removed the document, no write of an
\* updateClient, addReview or deleteReview on id brings a file for id back,
\* in any interleaving: when such a write begins the file stays absent.
C19_NoResurrection ==
    [][\A c \in Conns : \A d \in Conns :
          ( /\ MutationOpened(c)
            /\ Answered(d, "deleteClient", 204)
            /\ ClientPath(d) = ClientPath(c)
            /\ lastMut[ClientPath(c)] = d )
          => ~pathExists(fs', ClientPath(c))]_vars

(***************************************************************************)
(* Frame of the failed and of the read-only operations.                    *)
(***************************************************************************)
ReadOnlyOps == {"listDataFiles", "listClients", "getClientDetail", "listReviews",
                "randomReview", "generateQr"}

\* connection c's request is read-only, or was answered NotFound, Conflict,
\* Empty or with a validation failure
FailedOrReadOnly(c) ==
    \/ req[c].op \in ReadOnlyOps
    \/ req[c].pc = "done" /\ res[c].status \in {400, 404, 409}

\* C20: a request that is read-only or that was answered 400, 404 or 409 has
\* written and removed nothing and is never at a write or a removal; every
\* change of a file is a step of the write or the removal of a createClient,
\* updateClient, deleteClient, addReview or deleteReview, and a request that
\* got to its write or removal is answered 200, 201, 204 or 500, if at all.
C20_FailedAndReadOnlyChangeNothing ==
    /\ [](\A c \in Conns :
            FailedOrReadOnly(c)
            => /\ req[c].pc \notin WritePcs \cup RemovePcs
               /\ \A p \in Paths : lastMut[p] # c)
    /\ [][fs' # fs
          => \E d \in Conns :
                /\ Mutates(d)
                /\ req[d].op \notin ReadOnlyOps
                /\ \A p \in Paths \ {ClientPath(d)} : fs'[p] = fs[p]]_vars
    /\ [][\A d \in Conns :
            (req[d].pc \in WritePcs \cup RemovePcs /\ req'[d].pc = "done")
            => res'[d].status \in {200, 201, 204, 500}]_vars

\* C20 witness: a deleteReview of a text that is not in the list of abc was
\* answered 404 "Review not found.", a randomReview on xyz, whose list is
\* empty, was answered 404, and the files are as they were before the first
\* request
C20_Witness ==
    \E c \in Conns : \E d \in Conns :
        /\ Answered(c, "deleteReview", 404)
        /\ res[c].body = Message("Review not found.")
        /\ req[c].data.reviews = Arr(<<"Good", "Bad", "Good">>)
        /\ Answered(d, "randomReview", 404)
        /\ Has(req[d].data, "reviews")
        /\ req[d].data.reviews = Arr(<<>>)
        /\ fs \in InitialFiles

====
